---- MODULE Spec2Model ----
(***************************************************************************)
(* Page-object generator of playwright-ai: locator resolution, naming,     *)
(* deduplication, metadata diff and the generate-page-object CLI.          *)
(* Strings are TLA+ strings (TLC evaluates Len, \o and SubSeq on them).    *)
(* A nullable string of the source (string | null) is <<>> for null and    *)
(* <<s>> for the string s; a nullable result is modelled the same way.     *)
(***************************************************************************)
EXTENDS Integers, Sequences, FiniteSets, TLC

VARIABLES
    pc,              \* position of the operation under study
    config,          \* PageObjectGenerator.config (effective configuration)
    info,            \* ElementInfo handed to createAnalyzedElement
    elementType,     \* ElementType handed to createAnalyzedElement
    analyzed,        \* result of createAnalyzedElement: <<>> or <<element>>
    str,             \* argument of escapeString
    escaped,         \* result of escapeString: <<>> before the call
    elements,        \* argument of deduplicateElements
    uniqueElements,  \* result of deduplicateElements
    oldMetadata,     \* PageObjectMetadata read from the baseline
    newMetadata,     \* PageObjectMetadata of the current run
    diff,            \* DiffResult of PageObjectDiff.compare: <<>> or <<d>>
    page,            \* DOM of the page: sequence of [info, category]
    generated,       \* result of generateFromPage: <<>> or <<[code, metadata]>>
    analyzedPage,    \* AnalyzedPage handed to generateTemplate
    template,        \* result of generateTemplate: <<>> or <<t>>
    args,            \* process.argv.slice(2)
    env,             \* outcomes of the collaborators of one CLI run
    exitCode,        \* process.exitCode (0 when never set)
    exited,          \* TRUE once the process has terminated
    stdout,          \* what console.log printed, by kind
    stderr,          \* what console.error printed
    defaultConfig,   \* the DEFAULT_CONFIG object every instance reads
    instances,       \* the PageObjectGenerator instances of the process
    options,         \* CLIOptions of generate-tests-from-feature
    scenarioIndex,   \* position of its loop over the concrete scenarios
    hasErrors,       \* its hasErrors flag
    traces,          \* success of the execution traces it obtained
    writtenTests,    \* scenarios whose test files it wrote
    executorKind,    \* "playwright" (ScenarioExecutor) or "mcp"
    backend,         \* the executor's page, or the state of the MCP server
    scenario,        \* PlannedScenario.actions
    stepIndex,       \* position of the executor's loop over the actions
    performed,       \* actions handed to executeAction, in order
    connected,       \* outcome of PlaywrightMCPClient.connect
    trace,           \* the ExecutionTrace being built
    generatorState,  \* browser, context and page of a PageObjectGenerator
    calls            \* method calls made on it, with their outcomes

resolveVars == <<config, info, elementType, analyzed>>
escapeVars == <<str, escaped>>
dedupVars == <<elements, uniqueElements>>
diffVars == <<oldMetadata, newMetadata, diff>>
templateVars == <<analyzedPage, template>>
generateVars == <<page, generated, templateVars>>
cliVars == <<args, env, exitCode, exited, stdout, stderr>>

isolationVars == <<defaultConfig, instances>>
featureVars == <<options, scenarioIndex, hasErrors, traces, writtenTests>>
execVars == <<executorKind, backend, scenario, stepIndex, performed,
              connected, trace>>
lifecycleVars == <<generatorState, calls>>
laterVars == <<isolationVars, featureVars, execVars, lifecycleVars>>

vars == <<pc, resolveVars, escapeVars, dedupVars, diffVars, generateVars,
          cliVars, laterVars>>

-----------------------------------------------------------------------------
(* Bounds of the model *)

MaxStrLen == 4          \* longest argument of escapeString
MaxPriorityLen == 2     \* longest user-configured locatorPriority
MaxElements == 3        \* longest argument of deduplicateElements
MaxBatch == 2           \* longest metadata.elements read from a file
MaxPage == 2            \* most elements on the page
MaxInstances == 2       \* PageObjectGenerator instances alive at once
MaxScenarios == 2       \* most concrete scenarios of a feature file
MaxActions == 2         \* most actions of a planned scenario
MaxCalls == 3           \* most method calls on one generator

-----------------------------------------------------------------------------
(* Nullable values and JavaScript string primitives *)

None == <<>>
Some(v) == <<v>>
Val(o) == o[1]

\* JavaScript truthiness of a (string | null): null and '' are falsy
Truthy(o) == o # None /\ Val(o) # ""

Min(a, b) == IF a <= b THEN a ELSE b

Char(s, i) == SubSeq(s, i, i)

\* String.prototype.replace(/c/g, to) for a one-character pattern c
RECURSIVE ReplaceAll(_, _, _)
ReplaceAll(s, c, to) ==
    IF Len(s) = 0 THEN ""
    ELSE (IF Char(s, 1) = c THEN to ELSE Char(s, 1))
         \o ReplaceAll(SubSeq(s, 2, Len(s)), c, to)

\* characters matched by \s and stripped by trim()
WhiteSpace == {" ", "\n", "\t", "\r"}

RECURSIVE TrimStart(_)
TrimStart(s) ==
    IF Len(s) > 0 /\ Char(s, 1) \in WhiteSpace
    THEN TrimStart(SubSeq(s, 2, Len(s))) ELSE s

RECURSIVE TrimEnd(_)
TrimEnd(s) ==
    IF Len(s) > 0 /\ Char(s, Len(s)) \in WhiteSpace
    THEN TrimEnd(SubSeq(s, 1, Len(s) - 1)) ELSE s

\* String.prototype.trim
Trim(s) == TrimEnd(TrimStart(s))

\* String.prototype.substring(0, n)
Substring0(s, n) == SubSeq(s, 1, Min(n, Len(s)))

\* str.split(' ')[0]: the text before the first space
RECURSIVE FirstSplit(_)
FirstSplit(s) ==
    IF Len(s) = 0 \/ Char(s, 1) = " " THEN ""
    ELSE Char(s, 1) \o FirstSplit(SubSeq(s, 2, Len(s)))

-----------------------------------------------------------------------------
(* types.ts *)

LocatorTypes == {"getByRole", "getByLabel", "getByText", "getByPlaceholder",
                 "getByTestId", "locator"}

ElementTypes == {"button", "input", "link", "select", "checkbox", "radio",
                 "textarea", "heading", "other"}

DEFAULT_CONFIG ==
    [locatorPriority |-> <<"getByRole", "getByLabel", "getByPlaceholder",
                           "getByTestId", "getByText", "locator">>,
     namingRules |-> [maxTextLength |-> 30,
                      suffixes |-> [button |-> "Button", input |-> "Input",
                                    link |-> "Link", select |-> "Select",
                                    checkbox |-> "Checkbox", radio |-> "Radio",
                                    textarea |-> "Textarea",
                                    heading |-> "Heading", other |-> "Element"],
                      useCamelCase |-> TRUE],
     ignoreRules |-> [ignoreClasses |-> <<>>, ignoreIds |-> <<>>,
                      ignoreRoles |-> <<>>],
     templateOptions |-> [generateHelperMethods |-> TRUE,
                          includeGotoMethod |-> TRUE]]

\* longest visible text used as an accessible name or as a text locator
MaxLocatorTextLength == 50

-----------------------------------------------------------------------------
(* generator.ts: configuration *)

\* { ...d, ...u } for two objects; an absent object spreads as <<>>
Spread(d, u) ==
    [k \in (DOMAIN d) \cup (DOMAIN u) |-> IF k \in DOMAIN u THEN u[k] ELSE d[k]]

\* u.k when the key is set, else the empty object (u?.k spread as nothing)
Field(u, k) == IF k \in DOMAIN u THEN u[k] ELSE <<>>

\* userConfig is <<>> (no config given) or <<u>>, u a Partial<GeneratorConfig>:
\* a record carrying only the keys the caller set.
mergeConfig(userConfig) ==
    IF userConfig = None THEN DEFAULT_CONFIG
    ELSE LET u == Val(userConfig) IN
         [locatorPriority |->
              IF "locatorPriority" \in DOMAIN u THEN u.locatorPriority
              ELSE DEFAULT_CONFIG.locatorPriority,
          namingRules |->
              [Spread(DEFAULT_CONFIG.namingRules, Field(u, "namingRules"))
                 EXCEPT !["suffixes"] =
                    Spread(DEFAULT_CONFIG.namingRules.suffixes,
                           Field(Field(u, "namingRules"), "suffixes"))],
          ignoreRules |->
              Spread(DEFAULT_CONFIG.ignoreRules, Field(u, "ignoreRules")),
          templateOptions |->
              Spread(DEFAULT_CONFIG.templateOptions,
                     Field(u, "templateOptions"))]

-----------------------------------------------------------------------------
(* generator.ts: escaping and locator resolution *)

escapeString(s) == Trim(ReplaceAll(ReplaceAll(s, "'", "\\'"), "\n", " "))

roleMap == [button |-> "button", link |-> "link", input |-> "textbox",
            select |-> "combobox", checkbox |-> "checkbox", radio |-> "radio",
            textarea |-> "textbox", heading |-> "heading", other |-> ""]

LocatorResult(code, type) == Some([locatorCode |-> code, locatorType |-> type])

tryGenerateLocator(i, et, role, locatorType) ==
    CASE locatorType = "getByRole" ->
           IF role # "" /\ Truthy(i.ariaLabel)
           THEN LocatorResult("getByRole('" \o role \o "', { name: '"
                              \o escapeString(Val(i.ariaLabel)) \o "' })",
                              "getByRole")
           ELSE IF role # "" /\ Truthy(i.text)
                   /\ et \in {"button", "link", "heading"}
           THEN LocatorResult("getByRole('" \o role \o "', { name: '"
                              \o escapeString(Substring0(Val(i.text),
                                                  MaxLocatorTextLength))
                              \o "' })",
                              "getByRole")
           ELSE None
      [] locatorType = "getByLabel" ->
           IF Truthy(i.label)
           THEN LocatorResult("getByLabel('" \o escapeString(Val(i.label))
                              \o "')", "getByLabel")
           ELSE None
      [] locatorType = "getByPlaceholder" ->
           IF Truthy(i.placeholder)
           THEN LocatorResult("getByPlaceholder('"
                              \o escapeString(Val(i.placeholder)) \o "')",
                              "getByPlaceholder")
           ELSE None
      [] locatorType = "getByTestId" ->
           IF Truthy(i.testId)
           THEN LocatorResult("getByTestId('" \o escapeString(Val(i.testId))
                              \o "')", "getByTestId")
           ELSE None
      [] locatorType = "getByText" ->
           IF Truthy(i.text) /\ Len(Val(i.text)) <= MaxLocatorTextLength
           THEN LocatorResult("getByText('" \o escapeString(Val(i.text))
                              \o "')", "getByText")
           ELSE None
      [] locatorType = "locator" ->
           IF Truthy(i.id)
           THEN LocatorResult("locator('#" \o escapeString(Val(i.id)) \o "')",
                              "locator")
           ELSE IF Truthy(i.name)
           THEN LocatorResult("locator('[name=\"" \o escapeString(Val(i.name))
                              \o "\"]')", "locator")
           ELSE IF Truthy(i.className)
           THEN LocatorResult("locator('."
                              \o escapeString(FirstSplit(Val(i.className)))
                              \o "')", "locator")
           ELSE None
      [] OTHER -> None

\* the for loop of generateLocator over priority[k..], then the fallback
RECURSIVE WalkPriority(_, _, _, _)
WalkPriority(priority, k, i, et) ==
    IF k > Len(priority)
    THEN [locatorCode |-> "locator('" \o i.tagName \o "')",
          locatorType |-> "locator"]
    ELSE LET result == tryGenerateLocator(i, et, roleMap[et], priority[k])
         IN  IF result # None THEN Val(result)
             ELSE WalkPriority(priority, k + 1, i, et)

\* generateLocator reading DEFAULT_CONFIG where it should read this.config
generateLocatorDefaultOrder(cfg, i, et) ==
    WalkPriority(DEFAULT_CONFIG.locatorPriority, 1, i, et)

\* generateLocator without the return after the loop
generateLocatorNoFallback(cfg, i, et) ==
    IF \A k \in 1..Len(cfg.locatorPriority) :
          tryGenerateLocator(i, et, roleMap[et], cfg.locatorPriority[k]) = None
    THEN [locatorCode |-> "", locatorType |-> "locator"]
    ELSE WalkPriority(cfg.locatorPriority, 1, i, et)

generateLocator(cfg, i, et) == WalkPriority(cfg.locatorPriority, 1, i, et)

-----------------------------------------------------------------------------
(* generator.ts: naming *)

LowerCaseLetters == "abcdefghijklmnopqrstuvwxyz"
UpperCaseLetters == "ABCDEFGHIJKLMNOPQRSTUVWXYZ"
Digits == "0123456789"

\* [a-zA-Z0-9]
AlnumChars ==
    {Char(LowerCaseLetters, k) : k \in 1..26}
    \cup {Char(UpperCaseLetters, k) : k \in 1..26}
    \cup {Char(Digits, k) : k \in 1..10}

IsAlnum(c) == c \in AlnumChars

LowerOf ==
    [c \in {Char(UpperCaseLetters, k) : k \in 1..26} |->
        Char(LowerCaseLetters,
             CHOOSE k \in 1..26 : Char(UpperCaseLetters, k) = c)]

UpperOf ==
    [c \in {Char(LowerCaseLetters, k) : k \in 1..26} |->
        Char(UpperCaseLetters,
             CHOOSE k \in 1..26 : Char(LowerCaseLetters, k) = c)]

lowerChar(c) == IF c \in DOMAIN LowerOf THEN LowerOf[c] ELSE c

upperChar(c) == IF c \in DOMAIN UpperOf THEN UpperOf[c] ELSE c

\* String.prototype.toLowerCase on the characters of the model
RECURSIVE toLowerCase(_)
toLowerCase(s) ==
    IF Len(s) = 0 THEN ""
    ELSE lowerChar(Char(s, 1)) \o toLowerCase(SubSeq(s, 2, Len(s)))

\* .replace(/[^a-zA-Z0-9\s]/g, ' ')
RECURSIVE BlankNonAlnum(_)
BlankNonAlnum(s) ==
    IF Len(s) = 0 THEN ""
    ELSE (IF IsAlnum(Char(s, 1)) \/ Char(s, 1) \in WhiteSpace
          THEN Char(s, 1) ELSE " ")
         \o BlankNonAlnum(SubSeq(s, 2, Len(s)))

\* .split(/\s+/).filter(Boolean): the maximal runs of non-whitespace of s;
\* cur is the run being read
RECURSIVE SplitWords(_, _)
SplitWords(s, cur) ==
    IF Len(s) = 0 THEN (IF cur = "" THEN <<>> ELSE <<cur>>)
    ELSE IF Char(s, 1) \in WhiteSpace
         THEN (IF cur = "" THEN <<>> ELSE <<cur>>)
              \o SplitWords(SubSeq(s, 2, Len(s)), "")
         ELSE SplitWords(SubSeq(s, 2, Len(s)), cur \o Char(s, 1))

\* .join('')
RECURSIVE Join(_)
Join(ws) == IF Len(ws) = 0 THEN "" ELSE Head(ws) \o Join(Tail(ws))

\* charAt(0).toUpperCase() + slice(1)
Capitalize(w) ==
    IF Len(w) = 0 THEN "" ELSE upperChar(Char(w, 1)) \o SubSeq(w, 2, Len(w))

toCamelCase(s) ==
    LET words == SplitWords(BlankNonAlnum(s), "")
    IN  Join([k \in 1..Len(words) |->
                 IF k = 1 THEN toLowerCase(words[k])
                 ELSE Capitalize(toLowerCase(words[k]))])

toPascalCase(s) == Capitalize(toCamelCase(s))

\* the if / else-if chain of generateElementName
BaseName(cfg, i, et) ==
    IF Truthy(i.ariaLabel) THEN Val(i.ariaLabel)
    ELSE IF Truthy(i.label) THEN Val(i.label)
    ELSE IF Truthy(i.placeholder) THEN Val(i.placeholder)
    ELSE IF Truthy(i.text)
            /\ Len(Val(i.text)) <= cfg.namingRules.maxTextLength
         THEN Val(i.text)
    ELSE IF Truthy(i.name) THEN Val(i.name)
    ELSE IF Truthy(i.id) THEN Val(i.id)
    ELSE IF Truthy(i.testId) THEN Val(i.testId)
    ELSE "unnamed" \o et

\* generateElementName with the label tested before the aria-label
generateElementNameLabelFirst(cfg, i, et) ==
    LET baseName == IF Truthy(i.label) THEN Val(i.label)
                    ELSE BaseName(cfg, i, et)
        processedName == IF cfg.namingRules.useCamelCase
                         THEN toCamelCase(baseName) ELSE baseName
        suffix == IF et \in DOMAIN cfg.namingRules.suffixes
                     /\ cfg.namingRules.suffixes[et] # ""
                  THEN cfg.namingRules.suffixes[et] ELSE "Element"
    IN  processedName \o suffix

generateElementName(cfg, i, et) ==
    LET baseName == BaseName(cfg, i, et)
        processedName == IF cfg.namingRules.useCamelCase
                         THEN toCamelCase(baseName) ELSE baseName
        suffix == IF et \in DOMAIN cfg.namingRules.suffixes
                     /\ cfg.namingRules.suffixes[et] # ""
                  THEN cfg.namingRules.suffixes[et] ELSE "Element"
    IN  processedName \o suffix

createAnalyzedElement(cfg, i, et) ==
    LET loc == generateLocator(cfg, i, et)
        name == generateElementName(cfg, i, et)
    IN  IF name = "" \/ loc.locatorCode = "" THEN None
        ELSE Some([name |-> name,
                   locatorCode |-> loc.locatorCode,
                   locatorType |-> loc.locatorType,
                   elementType |-> et,
                   originalInfo |-> i])

-----------------------------------------------------------------------------
(* generator.ts: page analysis *)

\* String.prototype.includes
Includes(s, sub) ==
    \E k \in 1..(Len(s) - Len(sub) + 1) : SubSeq(s, k, k + Len(sub) - 1) = sub

\* Array.prototype.some(x => s.includes(x))
SomeIncluded(list, s) == \E k \in 1..Len(list) : Includes(s, list[k])

shouldIgnoreElement(cfg, i) ==
    \/ Truthy(i.id) /\ SomeIncluded(cfg.ignoreRules.ignoreIds, Val(i.id))
    \/ Truthy(i.className)
       /\ SomeIncluded(cfg.ignoreRules.ignoreClasses, Val(i.className))
    \/ Truthy(i.role)
       /\ \E k \in 1..Len(cfg.ignoreRules.ignoreRoles) :
             cfg.ignoreRules.ignoreRoles[k] = Val(i.role)

\* one loop of analyzePageElements: the elements page.getByRole(role).all()
\* yields from dom[k..], each extracted, filtered and analysed as et
RECURSIVE AnalyzeRole(_, _, _, _, _)
AnalyzeRole(cfg, dom, k, role, et) ==
    IF k > Len(dom) THEN <<>>
    ELSE (IF dom[k].role = role /\ ~shouldIgnoreElement(cfg, dom[k].info)
          THEN createAnalyzedElement(cfg, dom[k].info, et)
          ELSE <<>>)
         \o AnalyzeRole(cfg, dom, k + 1, role, et)

analyzePageElements(cfg, dom) ==
    [buttons |-> AnalyzeRole(cfg, dom, 1, "button", "button"),
     links |-> AnalyzeRole(cfg, dom, 1, "link", "link"),
     inputs |-> AnalyzeRole(cfg, dom, 1, "textbox", "input"),
     selects |-> AnalyzeRole(cfg, dom, 1, "combobox", "select"),
     checkboxes |-> AnalyzeRole(cfg, dom, 1, "checkbox", "checkbox"),
     radios |-> AnalyzeRole(cfg, dom, 1, "radio", "radio"),
     textareas |-> <<>>,
     headings |-> AnalyzeRole(cfg, dom, 1, "heading", "heading"),
     others |-> <<>>]

flattenElements(els) ==
    els.buttons \o els.inputs \o els.links \o els.selects \o els.checkboxes
    \o els.radios \o els.textareas \o els.headings \o els.others

-----------------------------------------------------------------------------
(* generator.ts: deduplication *)

\* seen.has(name): seen is the Map in insertion order, each value stored
\* under its own name
SeenHas(seen, name) == \E k \in 1..Len(seen) : seen[k].name = name

\* the while loop: the first `${name}${counter}` that seen does not hold
RECURSIVE ProbeName(_, _, _)
ProbeName(seen, name, counter) ==
    LET newName == name \o ToString(counter)
    IN  IF SeenHas(seen, newName) THEN ProbeName(seen, name, counter + 1)
        ELSE newName

\* the for loop over elements[k..]
RECURSIVE DedupLoop(_, _, _)
DedupLoop(els, k, seen) ==
    IF k > Len(els) THEN seen
    ELSE LET element == els[k] IN
         IF ~SeenHas(seen, element.name)
         THEN DedupLoop(els, k + 1, Append(seen, element))
         ELSE DedupLoop(els, k + 1,
                  Append(seen, [element EXCEPT
                                  !.name = ProbeName(seen, element.name, 2)]))

\* the same loop renaming a collision to `${name}2` without probing
RECURSIVE DedupLoopNoProbe(_, _, _)
DedupLoopNoProbe(els, k, seen) ==
    IF k > Len(els) THEN seen
    ELSE LET element == els[k] IN
         IF ~SeenHas(seen, element.name)
         THEN DedupLoopNoProbe(els, k + 1, Append(seen, element))
         ELSE DedupLoopNoProbe(els, k + 1,
                  Append(seen, [element EXCEPT
                                  !.name = element.name \o ToString(2)]))

deduplicateElementsNoProbe(els) == DedupLoopNoProbe(els, 1, <<>>)

\* the same loop with the counter starting at 1
RECURSIVE DedupLoopFromOne(_, _, _)
DedupLoopFromOne(els, k, seen) ==
    IF k > Len(els) THEN seen
    ELSE LET element == els[k] IN
         IF ~SeenHas(seen, element.name)
         THEN DedupLoopFromOne(els, k + 1, Append(seen, element))
         ELSE DedupLoopFromOne(els, k + 1,
                  Append(seen, [element EXCEPT
                                  !.name = ProbeName(seen, element.name, 1)]))

deduplicateElementsFromOne(els) == DedupLoopFromOne(els, 1, <<>>)

deduplicateElements(els) == DedupLoop(els, 1, <<>>)

-----------------------------------------------------------------------------
(* generator.ts: template *)

EndsWith(s, suffix) ==
    Len(s) >= Len(suffix)
    /\ SubSeq(s, Len(s) - Len(suffix) + 1, Len(s)) = suffix

\* name.replace(/suffix$/, '')
StripSuffix(s, suffix) ==
    IF EndsWith(s, suffix) THEN SubSeq(s, 1, Len(s) - Len(suffix)) ELSE s

\* name.replace(/(Input|Textarea)$/, '')
StripInputSuffix(s) ==
    IF EndsWith(s, "Input") THEN StripSuffix(s, "Input")
    ELSE StripSuffix(s, "Textarea")

Method(name, field, call) == [name |-> name, field |-> field, call |-> call]

\* one loop of generateHelperMethods over the elements of els[k..] whose
\* elementType is in types
RECURSIVE HelperLoop(_, _, _)
HelperLoop(els, k, types) ==
    IF k > Len(els) THEN <<>>
    ELSE LET e == els[k] IN
         (IF e.elementType \notin types THEN <<>>
          ELSE IF e.elementType = "button"
          THEN <<Method("click" \o toPascalCase(StripSuffix(e.name, "Button")),
                        e.name, "click")>>
          ELSE IF e.elementType \in {"input", "textarea"}
          THEN <<Method("fill" \o toPascalCase(StripInputSuffix(e.name)),
                        e.name, "fill")>>
          ELSE IF e.elementType = "select"
          THEN <<Method("select" \o toPascalCase(StripSuffix(e.name, "Select")),
                        e.name, "selectOption")>>
          ELSE IF e.elementType = "checkbox"
          THEN LET baseName == toPascalCase(StripSuffix(e.name, "Checkbox"))
               IN  <<Method("check" \o baseName, e.name, "check"),
                     Method("uncheck" \o baseName, e.name, "uncheck")>>
          ELSE <<Method("click" \o toPascalCase(StripSuffix(e.name, "Link"))
                        \o "Link", e.name, "click")>>)
         \o HelperLoop(els, k + 1, types)

generateHelperMethods(els) ==
    HelperLoop(els, 1, {"button"})
    \o HelperLoop(els, 1, {"input", "textarea"})
    \o HelperLoop(els, 1, {"select"})
    \o HelperLoop(els, 1, {"checkbox"})
    \o HelperLoop(els, 1, {"link"})

\* the generated class, by its parts: the readonly fields, the constructor
\* assignments, the goto method and the helper methods
generateTemplate(cfg, pageName, els) ==
    LET allElements == flattenElements(els)
        uniqueElements_ == deduplicateElements(allElements)
    IN  [className |-> toPascalCase(pageName) \o "Page",
         fields |-> [k \in 1..Len(uniqueElements_) |-> uniqueElements_[k].name],
         assignments |->
             [k \in 1..Len(uniqueElements_) |->
                 [field |-> uniqueElements_[k].name,
                  locatorCode |-> uniqueElements_[k].locatorCode]],
         goto |-> cfg.templateOptions.includeGotoMethod,
         methods |-> IF cfg.templateOptions.generateHelperMethods
                     THEN generateHelperMethods(uniqueElements_) ELSE <<>>]

\* generateFromPage on an initialised page showing dom, without a screenshot;
\* the generatedAt time stamp is left out
generateFromPage(cfg, dom, pageName, url) ==
    LET els == analyzePageElements(cfg, dom)
        allElements == flattenElements(els)
    IN  [code |-> generateTemplate(cfg, pageName, els),
         metadata |-> [url |-> url,
                       pageName |-> pageName,
                       elementCount |-> Len(allElements),
                       elements |-> allElements,
                       screenshotPath |-> None,
                       config |-> cfg]]

-----------------------------------------------------------------------------
(* diff.ts *)

\* new Map(elements.map(e => [e.name, e])): the entries in insertion order;
\* a repeated key keeps its first position and takes the later value
RECURSIVE MapFromElements(_, _, _)
MapFromElements(els, k, m) ==
    IF k > Len(els) THEN m
    ELSE LET e == els[k] IN
         IF \E j \in 1..Len(m) : m[j].name = e.name
         THEN MapFromElements(els, k + 1,
                  [j \in 1..Len(m) |-> IF m[j].name = e.name THEN e ELSE m[j]])
         ELSE MapFromElements(els, k + 1, Append(m, e))

MapHas(m, name) == \E j \in 1..Len(m) : m[j].name = name

MapGet(m, name) == m[CHOOSE j \in 1..Len(m) : m[j].name = name]

\* the first loop of compare, over newElements[k..]
RECURSIVE CompareNew(_, _, _, _)
CompareNew(oldElements, newElements, k, d) ==
    IF k > Len(newElements) THEN d
    ELSE LET newEl == newElements[k] IN
         IF ~MapHas(oldElements, newEl.name)
         THEN CompareNew(oldElements, newElements, k + 1,
                  [d EXCEPT !.added = Append(@, newEl)])
         ELSE LET oldEl == MapGet(oldElements, newEl.name) IN
              IF oldEl.locatorCode # newEl.locatorCode
              THEN CompareNew(oldElements, newElements, k + 1,
                       [d EXCEPT !.modified =
                           Append(@, [old |-> oldEl, new |-> newEl])])
              ELSE CompareNew(oldElements, newElements, k + 1,
                       [d EXCEPT !.unchanged = Append(@, newEl)])

\* the second loop of compare: the old elements whose name new does not hold
RECURSIVE CompareOld(_, _, _)
CompareOld(oldElements, newElements, k) ==
    IF k > Len(oldElements) THEN <<>>
    ELSE (IF ~MapHas(newElements, oldElements[k].name)
          THEN <<oldElements[k]>> ELSE <<>>)
         \o CompareOld(oldElements, newElements, k + 1)

EmptyDiff == [added |-> <<>>, removed |-> <<>>, modified |-> <<>>,
              unchanged |-> <<>>]

\* compare with the second loop pushing every old element
compareRemovedAll(oldMeta, newMeta) ==
    LET oldElements == MapFromElements(oldMeta.elements, 1, <<>>)
        newElements == MapFromElements(newMeta.elements, 1, <<>>)
    IN  [CompareNew(oldElements, newElements, 1, EmptyDiff)
           EXCEPT !.removed = oldElements]

\* the first loop comparing the whole element instead of its locatorCode
RECURSIVE CompareNewDeep(_, _, _, _)
CompareNewDeep(oldElements, newElements, k, d) ==
    IF k > Len(newElements) THEN d
    ELSE LET newEl == newElements[k] IN
         IF ~MapHas(oldElements, newEl.name)
         THEN CompareNewDeep(oldElements, newElements, k + 1,
                  [d EXCEPT !.added = Append(@, newEl)])
         ELSE LET oldEl == MapGet(oldElements, newEl.name) IN
              IF oldEl # newEl
              THEN CompareNewDeep(oldElements, newElements, k + 1,
                       [d EXCEPT !.modified =
                           Append(@, [old |-> oldEl, new |-> newEl])])
              ELSE CompareNewDeep(oldElements, newElements, k + 1,
                       [d EXCEPT !.unchanged = Append(@, newEl)])

compareDeep(oldMeta, newMeta) ==
    LET oldElements == MapFromElements(oldMeta.elements, 1, <<>>)
        newElements == MapFromElements(newMeta.elements, 1, <<>>)
    IN  [CompareNewDeep(oldElements, newElements, 1, EmptyDiff)
           EXCEPT !.removed = CompareOld(oldElements, newElements, 1)]

compare(oldMeta, newMeta) ==
    LET oldElements == MapFromElements(oldMeta.elements, 1, <<>>)
        newElements == MapFromElements(newMeta.elements, 1, <<>>)
    IN  [CompareNew(oldElements, newElements, 1, EmptyDiff)
           EXCEPT !.removed = CompareOld(oldElements, newElements, 1)]

hasChanges(d) ==
    Len(d.added) > 0 \/ Len(d.removed) > 0 \/ Len(d.modified) > 0

-----------------------------------------------------------------------------
(* generate-page-object CLI: parseArgs *)

\* args[k], undefined (<<>>) past the end
ArgAt(a, k) == IF k <= Len(a) THEN Some(a[k]) ELSE None

StartsWithDash(arg) == Len(arg) > 0 /\ Char(arg, 1) = "-"

ParseStart ==
    [options |-> [screenshot |-> FALSE, screenshotPath |-> None,
                  jsonOutput |-> FALSE, verbose |-> FALSE],
     command |-> "generate",
     metadataPath |-> None,
     compareWith |-> None,
     positionalArgs |-> <<>>]

\* the for loop of parseArgs from args[k]
RECURSIVE ParseLoop(_, _, _)
ParseLoop(a, k, st) ==
    IF k > Len(a) THEN st
    ELSE LET arg == a[k] IN
         IF arg \in {"--screenshot", "-s"}
         THEN ParseLoop(a, k + 1, [st EXCEPT !.options.screenshot = TRUE])
         ELSE IF arg = "--screenshot-path" /\ Truthy(ArgAt(a, k + 1))
         THEN ParseLoop(a, k + 2,
                  [st EXCEPT !.options.screenshotPath = ArgAt(a, k + 1),
                             !.options.screenshot = TRUE])
         ELSE IF arg \in {"--json", "-j"}
         THEN ParseLoop(a, k + 1, [st EXCEPT !.options.jsonOutput = TRUE])
         ELSE IF arg \in {"--verbose", "-v"}
         THEN ParseLoop(a, k + 1, [st EXCEPT !.options.verbose = TRUE])
         ELSE IF arg \in {"--metadata", "-m"}
         THEN ParseLoop(a, k + 2, [st EXCEPT !.metadataPath = ArgAt(a, k + 1)])
         ELSE IF arg \in {"--compare", "-c"}
         THEN ParseLoop(a, k + 2, [st EXCEPT !.compareWith = ArgAt(a, k + 1),
                                             !.command = "compare"])
         ELSE IF arg \in {"generate", "compare", "diff"}
         THEN ParseLoop(a, k + 1,
                  [st EXCEPT !.command = IF arg = "diff" THEN "compare"
                                         ELSE arg])
         ELSE IF ~StartsWithDash(arg)
         THEN ParseLoop(a, k + 1,
                  [st EXCEPT !.positionalArgs = Append(@, arg)])
         ELSE ParseLoop(a, k + 1, st)

parseArgs(a) ==
    LET st == ParseLoop(a, 1, ParseStart)
        positional(k) == ArgAt(st.positionalArgs, k)
        byPosition == st.command \in {"generate", "compare"}
    IN  [command |-> st.command,
         url |-> IF byPosition THEN positional(1) ELSE None,
         pageName |-> IF byPosition THEN positional(2) ELSE None,
         outputPath |-> IF byPosition THEN positional(3) ELSE None,
         options |-> st.options,
         metadataPath |-> st.metadataPath,
         compareWith |-> st.compareWith]

\* args.includes('--help') || args.includes('-h')
WantsHelp(a) == \E k \in 1..Len(a) : a[k] \in {"--help", "-h"}

-----------------------------------------------------------------------------
(* Values the variables of an operation hold while another one is studied *)

ResolveIdle == /\ config = DEFAULT_CONFIG /\ info = <<>> /\ elementType = ""
               /\ analyzed = None
EscapeIdle == str = "" /\ escaped = None
DedupIdle == elements = <<>> /\ uniqueElements = <<>>
DiffIdle == oldMetadata = <<>> /\ newMetadata = <<>> /\ diff = None
TemplateIdle == analyzedPage = <<>> /\ template = None
GenerateIdle == page = <<>> /\ generated = None /\ TemplateIdle
CliIdle == /\ args = <<>> /\ env = <<>> /\ exitCode = 0 /\ exited = FALSE
           /\ stdout = <<>> /\ stderr = <<>>
IsolationIdle == defaultConfig = DEFAULT_CONFIG /\ instances = <<>>
FeatureIdle == /\ options = <<>> /\ scenarioIndex = 0 /\ hasErrors = FALSE
               /\ traces = <<>> /\ writtenTests = <<>>
ExecIdle == /\ executorKind = "" /\ backend = "" /\ scenario = <<>>
            /\ stepIndex = 0 /\ performed = <<>> /\ connected = ""
            /\ trace = <<>>
LifecycleIdle == generatorState = <<>> /\ calls = <<>>
LaterIdle == IsolationIdle /\ FeatureIdle /\ ExecIdle /\ LifecycleIdle
CoreIdle == /\ ResolveIdle /\ EscapeIdle /\ DedupIdle /\ DiffIdle
            /\ GenerateIdle /\ CliIdle
coreVars == <<resolveVars, escapeVars, dedupVars, diffVars, generateVars,
              cliVars>>
restOfIsolation == <<coreVars, featureVars, execVars, lifecycleVars>>
restOfFeature == <<resolveVars, escapeVars, dedupVars, diffVars, generateVars,
                   isolationVars, execVars, lifecycleVars>>
restOfExec == <<coreVars, isolationVars, featureVars, lifecycleVars>>
restOfLifecycle == <<coreVars, isolationVars, featureVars, execVars>>

-----------------------------------------------------------------------------
(* Inputs of locator resolution and naming *)

\* a visible text of 51 characters: one more than MaxLocatorTextLength
Text51 == "This sentence of a paragraph has fifty-one letters."

\* all injective sequences over S of length at most n
RECURSIVE InjectiveSeqs(_, _)
InjectiveSeqs(S, n) ==
    IF n = 0 THEN {<<>>}
    ELSE LET shorter == InjectiveSeqs(S, n - 1)
         IN  shorter \cup
             {Append(q, x) : <<q, x>> \in
                 {<<q, x>> \in shorter \X S :
                     \A k \in 1..Len(q) : q[k] # x}}

ElementInfos ==
    [tagName : {"div"},
     role : {None},
     label : {None, Some("Email")},
     text : {None, Some("Submit"), Some(Text51)},
     placeholder : {None, Some("it's")},
     name : {None, Some("user")},
     id : {None, Some("main")},
     className : {None, Some("btn primary")},
     type : {None},
     ariaLabel : {None, Some(""), Some("Log in")},
     testId : {None, Some("tid")}]

\* options.config of the constructor: absent, or a locatorPriority override
UserConfigs ==
    {None} \cup
    {Some([locatorPriority |-> p]) : p \in InjectiveSeqs(LocatorTypes, MaxPriorityLen)}

-----------------------------------------------------------------------------
(* Specification of one createAnalyzedElement call *)

InitResolve ==
    /\ pc = "resolve"
    /\ \E u \in UserConfigs : config = mergeConfig(u)
    /\ info \in ElementInfos
    /\ elementType \in ElementTypes
    /\ analyzed = None
    /\ EscapeIdle /\ DedupIdle /\ DiffIdle /\ GenerateIdle /\ CliIdle
    /\ LaterIdle

CreateAnalyzedElement ==
    /\ pc = "resolve"
    /\ analyzed' = createAnalyzedElement(config, info, elementType)
    /\ pc' = "resolved"
    /\ UNCHANGED <<config, info, elementType, escapeVars, dedupVars, diffVars,
                   generateVars, cliVars,
                   laterVars>>

NextResolve == CreateAnalyzedElement

SpecResolve == InitResolve /\ [][NextResolve]_vars

-----------------------------------------------------------------------------
(* Specification of one escapeString call *)

EscapeAlphabet == {"'", "\\", "\n", " ", "a"}

RECURSIVE StringsUpTo(_, _)
StringsUpTo(A, n) ==
    IF n = 0 THEN {""}
    ELSE LET shorter == StringsUpTo(A, n - 1)
         IN  shorter \cup {s \o c : <<s, c>> \in shorter \X A}

InitEscape ==
    /\ pc = "escape"
    /\ str \in StringsUpTo(EscapeAlphabet, MaxStrLen)
    /\ escaped = None
    /\ ResolveIdle /\ DedupIdle /\ DiffIdle /\ GenerateIdle /\ CliIdle
    /\ LaterIdle

EscapeString ==
    /\ pc = "escape"
    /\ escaped' = Some(escapeString(str))
    /\ pc' = "escaped"
    /\ UNCHANGED <<str, resolveVars, dedupVars, diffVars, generateVars,
                   cliVars,
                   laterVars>>

NextEscape == EscapeString

SpecEscape == InitEscape /\ [][NextEscape]_vars

-----------------------------------------------------------------------------
(* Claims on locator resolution *)

Applicable(k) ==
    tryGenerateLocator(info, elementType, roleMap[elementType],
                       config.locatorPriority[k]) # None

FirstApplicable ==
    CHOOSE k \in 1..Len(config.locatorPriority) :
        Applicable(k) /\ \A j \in 1..(k - 1) : ~Applicable(j)

RoleAndLabelHold ==
    /\ Truthy(info.ariaLabel) /\ Truthy(info.label)
    /\ roleMap[elementType] # ""

\* C1: generateLocator returns the result of the first strategy, in the order
\* of locatorPriority, whose applicability predicate holds; a descriptor that
\* satisfies getByRole and getByLabel resolves to the one listed first; the
\* default order is getByRole, getByLabel, getByPlaceholder, getByTestId,
\* getByText, locator.
C1_FirstMatchWins ==
    pc = "resolved" =>
        /\ analyzed # None
        /\ (\E k \in 1..Len(config.locatorPriority) : Applicable(k)) =>
              /\ Val(analyzed).locatorType
                    = config.locatorPriority[FirstApplicable]
              /\ [locatorCode |-> Val(analyzed).locatorCode,
                  locatorType |-> Val(analyzed).locatorType]
                    = Val(tryGenerateLocator(info, elementType,
                              roleMap[elementType],
                              config.locatorPriority[FirstApplicable]))
        /\ (RoleAndLabelHold
            /\ config.locatorPriority = <<"getByRole", "getByLabel">>)
              => Val(analyzed).locatorType = "getByRole"
        /\ (RoleAndLabelHold
            /\ config.locatorPriority = <<"getByLabel", "getByRole">>)
              => Val(analyzed).locatorType = "getByLabel"
        /\ mergeConfig(None).locatorPriority
              = <<"getByRole", "getByLabel", "getByPlaceholder",
                  "getByTestId", "getByText", "locator">>

C1_Witness ==
    /\ pc = "resolved"
    /\ RoleAndLabelHold
    /\ config.locatorPriority = <<"getByLabel", "getByRole">>
    /\ analyzed # None
    /\ Val(analyzed).locatorType = "getByLabel"

\* C2: generateLocator is total: for every ElementInfo, ElementType and
\* locatorPriority the locatorCode is a non-empty string, and when no listed
\* strategy applies it is locator('<tagName>') with locatorType locator.
C2_Totality ==
    pc = "resolved" =>
        /\ analyzed # None
        /\ Len(Val(analyzed).locatorCode) > 0
        /\ (\A k \in 1..Len(config.locatorPriority) : ~Applicable(k)) =>
              /\ Val(analyzed).locatorCode
                    = "locator('" \o info.tagName \o "')"
              /\ Val(analyzed).locatorType = "locator"

AllOptionalNull ==
    \A f \in (DOMAIN info) \ {"tagName"} : info[f] = None

C2_Witness ==
    /\ pc = "resolved"
    /\ AllOptionalNull
    /\ analyzed # None
    /\ Val(analyzed).locatorCode = "locator('div')"

\* the name signal of the role strategy: an aria-label, or for a button, link
\* or heading a visible text of at most MaxLocatorTextLength characters
RoleNameSignal ==
    /\ roleMap[elementType] # ""
    /\ \/ Truthy(info.ariaLabel)
       \/ /\ elementType \in {"button", "link", "heading"}
          /\ Truthy(info.text)
          /\ Len(Val(info.text)) <= MaxLocatorTextLength

\* C11: getByRole applies exactly when the category maps to a non-empty role
\* and either aria-label is present, or the category is button, link or
\* heading and visible text of at most 50 characters is present; aria-label is
\* preferred over text as the name; a button, link or heading whose only name
\* signal is a text longer than 50 characters is not resolved by getByRole,
\* and category other never is.
C11_RoleApplicability ==
    pc = "resolved" =>
        /\ analyzed # None
        /\ Val(analyzed).locatorType = "getByRole" => RoleNameSignal
        /\ (Len(config.locatorPriority) > 0
            /\ config.locatorPriority[1] = "getByRole"
            /\ RoleNameSignal) =>
              /\ Val(analyzed).locatorType = "getByRole"
              /\ Val(analyzed).locatorCode
                    = "getByRole('" \o roleMap[elementType] \o "', { name: '"
                      \o escapeString(IF Truthy(info.ariaLabel)
                                      THEN Val(info.ariaLabel)
                                      ELSE Val(info.text))
                      \o "' })"
        /\ elementType = "other" => Val(analyzed).locatorType # "getByRole"

AttributesAbsent ==
    ~Truthy(info.id) /\ ~Truthy(info.name) /\ ~Truthy(info.className)

\* C12: the locator strategy is always applicable: whenever the priority walk
\* reaches locator (no strategy listed before it applies) the result is of
\* type locator, the bare tag-name selector when id, name and class are all
\* absent, so no strategy listed after locator is ever selected.
C12_LocatorAlwaysApplies ==
    pc = "resolved" =>
        \A k \in 1..Len(config.locatorPriority) :
            (config.locatorPriority[k] = "locator"
             /\ \A j \in 1..(k - 1) : ~Applicable(j)) =>
                /\ analyzed # None
                /\ Val(analyzed).locatorType = "locator"
                /\ AttributesAbsent =>
                      Val(analyzed).locatorCode
                         = "locator('" \o info.tagName \o "')"

\* C23: when the configured locator priority list is empty, resolution fails
\* with a configuration error: no locator, such as the bare tag-name selector,
\* is returned for any descriptor under that configuration.
C23_EmptyPriorityRejected ==
    (pc = "resolved" /\ config.locatorPriority = <<>>) => analyzed = None

-----------------------------------------------------------------------------
(* Claims on escaping *)

\* a quote of s at or after position k that no backslash escapes, reading s
\* as the body of a single-quoted literal
RECURSIVE HasBareQuote(_, _)
HasBareQuote(s, k) ==
    IF k > Len(s) THEN FALSE
    ELSE IF Char(s, k) = "\\" THEN HasBareQuote(s, k + 2)
    ELSE IF Char(s, k) = "'" THEN TRUE
    ELSE HasBareQuote(s, k + 1)

Contains(s, c) == \E k \in 1..Len(s) : Char(s, k) = c

\* C10: the output of escapeString contains no newline, no single quote left
\* unescaped, and no leading or trailing whitespace.
C10_EscapingSafety ==
    pc = "escaped" =>
        LET out == Val(escaped) IN
        /\ ~Contains(out, "\n")
        /\ ~HasBareQuote(out, 1)
        /\ (Len(out) > 0 =>
               /\ Char(out, 1) \notin WhiteSpace
               /\ Char(out, Len(out)) \notin WhiteSpace)

-----------------------------------------------------------------------------
(* Specification of one deduplicateElements call *)

\* all sequences over S of length at most n
RECURSIVE SeqsUpTo(_, _)
SeqsUpTo(S, n) ==
    IF n = 0 THEN {<<>>}
    ELSE LET shorter == SeqsUpTo(S, n - 1)
         IN  shorter \cup {Append(q, x) : <<q, x>> \in shorter \X S}

\* AnalyzedElements handed to deduplicateElements: three names, one of them
\* the suffixed form of another, each with two locators
DedupElements ==
    [name : {"submitButton", "submitButton2", "emailInput"},
     locatorCode : {"getByLabel('A')", "locator('#b')"},
     locatorType : {"locator"},
     elementType : {"button"},
     originalInfo : {<<>>}]

InitDedup ==
    /\ pc = "deduplicate"
    /\ elements \in SeqsUpTo(DedupElements, MaxElements)
    /\ uniqueElements = <<>>
    /\ ResolveIdle /\ EscapeIdle /\ DiffIdle /\ GenerateIdle /\ CliIdle
    /\ LaterIdle

DeduplicateElements ==
    /\ pc = "deduplicate"
    /\ uniqueElements' = deduplicateElements(elements)
    /\ pc' = "deduplicated"
    /\ UNCHANGED <<elements, resolveVars, escapeVars, diffVars, generateVars,
                   cliVars,
                   laterVars>>

NextDedup == DeduplicateElements

SpecDedup == InitDedup /\ [][NextDedup]_vars

\* C3: the sequence deduplicateElements returns has pairwise distinct
\* identifiers, whatever names and repetitions the input holds.
C3_DedupUnique ==
    pc = "deduplicated" =>
        \A i, j \in 1..Len(uniqueElements) :
            i # j => uniqueElements[i].name # uniqueElements[j].name

C3_Witness ==
    /\ pc = "deduplicated"
    /\ Len(elements) = MaxElements
    /\ \A i \in 1..Len(elements) : elements[i].name = "submitButton"
    /\ \A i, j \in 1..Len(uniqueElements) :
          i # j => uniqueElements[i].name # uniqueElements[j].name

FirstOccurrence(k) ==
    \A j \in 1..(k - 1) : elements[j].name # elements[k].name

\* C4: the first element, in input order, that carries a given identifier is
\* in the output of deduplicateElements with that identifier unchanged.
C4_FirstOccurrenceKept ==
    pc = "deduplicated" =>
        \A k \in 1..Len(elements) :
            FirstOccurrence(k) =>
                \E j \in 1..Len(uniqueElements) :
                    uniqueElements[j] = elements[k]

\* the identifiers emitted for elements[1..k-1]
EmittedBefore(k) == {uniqueElements[j].name : j \in 1..(k - 1)}

NamesIn(els) == [k \in 1..Len(els) |-> els[k].name]

\* C18: on a collision deduplicateElements renames the element to name+n, n
\* the smallest integer >= 2 such that name+n is not an emitted identifier;
\* the probing ends for every finite input (after at most one probe per
\* emitted identifier); of three elements named submitButton the first stays
\* submitButton, the second becomes submitButton2, the third submitButton3.
C18_SmallestFreeSuffix ==
    pc = "deduplicated" =>
        /\ Len(uniqueElements) = Len(elements)
        /\ \A k \in 1..Len(elements) :
              LET name == elements[k].name IN
              IF name \notin EmittedBefore(k)
              THEN uniqueElements[k] = elements[k]
              ELSE \E n \in 2..(k + 1) :
                      /\ uniqueElements[k]
                            = [elements[k] EXCEPT !.name = name \o ToString(n)]
                      /\ name \o ToString(n) \notin EmittedBefore(k)
                      /\ \A m \in 2..(n - 1) :
                            name \o ToString(m) \in EmittedBefore(k)
        /\ (Len(elements) >= 2
            /\ \A k \in 1..Len(elements) : elements[k].name = "submitButton")
              => /\ uniqueElements[1].name = "submitButton"
                 /\ uniqueElements[2].name = "submitButton2"
                 /\ Len(elements) >= 3
                       => uniqueElements[3].name = "submitButton3"

C18_Witness ==
    /\ pc = "deduplicated"
    /\ NamesIn(elements)
          = <<"submitButton", "submitButton", "submitButton">>
    /\ NamesIn(uniqueElements)
          = <<"submitButton", "submitButton2", "submitButton3">>

-----------------------------------------------------------------------------
(* Specification of one PageObjectDiff.compare call *)

LocatorA == "getByLabel('Email')"
LocatorB == "getByPlaceholder('Email')"
LocatorC == "locator('#phone')"

EmailInfo == [tagName |-> "input", id |-> Some("email")]
OtherInfo == [tagName |-> "div", id |-> None]

\* elements of a metadata file: two names, three locators, and for LocatorA a
\* second element that differs in locatorType, elementType and originalInfo
DiffElements ==
    [name : {"emailInput", "phoneInput"},
     locatorCode : {LocatorA, LocatorB, LocatorC},
     locatorType : {"getByLabel"},
     elementType : {"input"},
     originalInfo : {EmailInfo}]
    \cup
    [name : {"emailInput", "phoneInput"},
     locatorCode : {LocatorA},
     locatorType : {"locator"},
     elementType : {"other"},
     originalInfo : {OtherInfo}]

Metadata(els) == [elementCount |-> Len(els), elements |-> els]

InitDiff ==
    /\ pc = "compare"
    /\ \E els \in SeqsUpTo(DiffElements, MaxBatch) : oldMetadata = Metadata(els)
    /\ \E els \in SeqsUpTo(DiffElements, MaxBatch) : newMetadata = Metadata(els)
    /\ diff = None
    /\ ResolveIdle /\ EscapeIdle /\ DedupIdle /\ GenerateIdle /\ CliIdle
    /\ LaterIdle

Compare ==
    /\ pc = "compare"
    /\ diff' = Some(compare(oldMetadata, newMetadata))
    /\ pc' = "compared"
    /\ UNCHANGED <<oldMetadata, newMetadata, resolveVars, escapeVars,
                   dedupVars, generateVars, cliVars,
                   laterVars>>

NextDiff == Compare

SpecDiff == InitDiff /\ [][NextDiff]_vars

NamesOf(els) == {els[k].name : k \in 1..Len(els)}

\* how many entries of the four buckets of d carry the identifier n
Occurrences(d, n) ==
    Cardinality({k \in 1..Len(d.added) : d.added[k].name = n})
    + Cardinality({k \in 1..Len(d.removed) : d.removed[k].name = n})
    + Cardinality({k \in 1..Len(d.modified) :
                       d.modified[k].old.name = n \/ d.modified[k].new.name = n})
    + Cardinality({k \in 1..Len(d.unchanged) : d.unchanged[k].name = n})

BucketNames(d) ==
    NamesOf(d.added) \cup NamesOf(d.removed) \cup NamesOf(d.unchanged)
    \cup {d.modified[k].old.name : k \in 1..Len(d.modified)}
    \cup {d.modified[k].new.name : k \in 1..Len(d.modified)}

\* C5: every identifier of old.elements or new.elements is in exactly one of
\* added, removed, modified, unchanged, and the buckets hold no other
\* identifier.
C5_DiffPartition ==
    pc = "compared" =>
        LET d == Val(diff)
            ids == NamesOf(oldMetadata.elements) \cup NamesOf(newMetadata.elements)
        IN  /\ \A n \in ids : Occurrences(d, n) = 1
            /\ BucketNames(d) \subseteq ids

C5_Witness ==
    /\ pc = "compared"
    /\ NamesOf(oldMetadata.elements) = {"emailInput", "phoneInput"}
    /\ NamesOf(newMetadata.elements) = {"emailInput"}
    /\ Len(Val(diff).removed) = 1
    /\ Len(Val(diff).added) = 0
    /\ Len(Val(diff).modified) + Len(Val(diff).unchanged) = 1

CodesOf(els, n) == {els[k].locatorCode : k \in {j \in 1..Len(els) : els[j].name = n}}

\* C6: an identifier is added iff only new holds it, removed iff only old
\* holds it, modified iff both hold it with different locatorCode, unchanged
\* iff both hold it with equal locatorCode; locatorType, elementType and
\* originalInfo play no part. (Where a batch repeats an identifier, modified
\* needs some pair of differing locatorCodes and unchanged some equal pair.)
C6_DiffClassification ==
    pc = "compared" =>
        LET d == Val(diff)
            old == oldMetadata.elements
            new == newMetadata.elements
            modifiedNames == {d.modified[k].new.name : k \in 1..Len(d.modified)}
        IN  /\ NamesOf(d.added) = NamesOf(new) \ NamesOf(old)
            /\ NamesOf(d.removed) = NamesOf(old) \ NamesOf(new)
            /\ \A k \in 1..Len(d.modified) :
                  d.modified[k].old.name = d.modified[k].new.name
            /\ \A n \in NamesOf(old) \cap NamesOf(new) :
                  /\ n \in modifiedNames =>
                        \E a \in CodesOf(old, n), b \in CodesOf(new, n) : a # b
                  /\ n \in NamesOf(d.unchanged) =>
                        \E a \in CodesOf(old, n), b \in CodesOf(new, n) : a = b
                  /\ CodesOf(old, n) = CodesOf(new, n)
                     /\ Cardinality(CodesOf(old, n)) = 1
                        => n \in NamesOf(d.unchanged)
                  /\ CodesOf(old, n) \cap CodesOf(new, n) = {}
                        => n \in modifiedNames
            /\ modifiedNames \cup NamesOf(d.unchanged)
                  = NamesOf(old) \cap NamesOf(new)
            /\ modifiedNames \cap NamesOf(d.unchanged) = {}

EmailElement(code) ==
    [name |-> "emailInput", locatorCode |-> code, locatorType |-> "getByLabel",
     elementType |-> "input", originalInfo |-> EmailInfo]

\* old {emailInput: A}, new {emailInput: B, phoneInput: C}
C6_Witness ==
    /\ pc = "compared"
    /\ oldMetadata.elements = <<EmailElement(LocatorA)>>
    /\ newMetadata.elements
          = <<EmailElement(LocatorB),
              [EmailElement(LocatorC) EXCEPT !.name = "phoneInput"]>>
    /\ Val(diff) = [added |-> <<[EmailElement(LocatorC)
                                   EXCEPT !.name = "phoneInput"]>>,
                    removed |-> <<>>,
                    modified |-> <<[old |-> EmailElement(LocatorA),
                                    new |-> EmailElement(LocatorB)]>>,
                    unchanged |-> <<>>]

-----------------------------------------------------------------------------
(* Specification of a generation run followed by a comparison of the
   metadata with itself *)

NullInfo(tag) ==
    [tagName |-> tag, role |-> None, label |-> None, text |-> None,
     placeholder |-> None, name |-> None, id |-> None, className |-> None,
     type |-> None, ariaLabel |-> None, testId |-> None]

DomElement(role, i) == [role |-> role, info |-> i]

\* elements of the page, by the role page.getByRole finds them under
PageElements ==
    {DomElement("button", [NullInfo("button") EXCEPT
                             !.ariaLabel = Some("Submit"), !.id = Some("a")]),
     DomElement("button", [NullInfo("button") EXCEPT
                             !.ariaLabel = Some("Submit"), !.id = Some("b")]),
     DomElement("button", [NullInfo("button") EXCEPT
                             !.label = Some("Submit")]),
     DomElement("textbox", [NullInfo("input") EXCEPT
                             !.placeholder = Some("Email"),
                             !.className = Some("ad-slot wide")]),
     DomElement("link", [NullInfo("a") EXCEPT
                             !.text = Some("Forgot password")]),
     DomElement("checkbox", [NullInfo("input") EXCEPT
                             !.label = Some("Remember me")]),
     DomElement("link", [NullInfo("a") EXCEPT
                             !.role = Some("link menuitem"),
                             !.text = Some("Settings")]),
     DomElement("button", [NullInfo("div") EXCEPT
                             !.role = Some("button"),
                             !.ariaLabel = Some("Close"),
                             !.id = Some("cookie-close")])}

GenerateUserConfigs ==
    {None,
     Some([ignoreRules |-> [ignoreClasses |-> <<"ad-">>]]),
     Some([ignoreRules |-> [ignoreIds |-> <<"cookie">>,
                            ignoreRoles |-> <<"menuitem">>]]),
     Some([ignoreRules |-> [ignoreRoles |-> <<"button">>]])}

InitGenerate ==
    /\ pc = "generate"
    /\ \E u \in GenerateUserConfigs : config = mergeConfig(u)
    /\ page \in SeqsUpTo(PageElements, MaxPage)
    /\ generated = None
    /\ info = <<>> /\ elementType = "" /\ analyzed = None
    /\ TemplateIdle /\ EscapeIdle /\ DedupIdle /\ DiffIdle /\ CliIdle
    /\ LaterIdle

GenerateFromPage ==
    /\ pc = "generate"
    /\ generated' = Some(generateFromPage(config, page, "Login", "url"))
    /\ pc' = "generated"
    /\ UNCHANGED <<page, templateVars, resolveVars, escapeVars, dedupVars,
                   diffVars, cliVars,
                   laterVars>>

\* the metadata of the run compared with itself
CompareWithItself ==
    /\ pc = "generated"
    /\ oldMetadata' = Val(generated).metadata
    /\ newMetadata' = Val(generated).metadata
    /\ diff' = Some(compare(Val(generated).metadata, Val(generated).metadata))
    /\ pc' = "selfCompared"
    /\ UNCHANGED <<generateVars, resolveVars, escapeVars, dedupVars,
                   cliVars,
                   laterVars>>

NextGenerate == GenerateFromPage \/ CompareWithItself

SpecGenerate == InitGenerate /\ [][NextGenerate]_vars

InSeq(x, q) == \E k \in 1..Len(q) : q[k] = x

\* C7: compare(m, m) of a batch m that generateFromPage produced has empty
\* added, removed and modified, and its unchanged holds every element of
\* m.elements; hasChanges is false.
C7_DiffStability ==
    pc = "selfCompared" =>
        LET d == Val(diff)
            m == Val(generated).metadata
        IN  /\ d.added = <<>> /\ d.removed = <<>> /\ d.modified = <<>>
            /\ \A k \in 1..Len(m.elements) : InSeq(m.elements[k], d.unchanged)
            /\ ~hasChanges(d)

\* C19: the batch generateFromPage returns as metadata.elements has pairwise
\* unique identifiers and non-empty locator expressions, and its identifiers
\* are the ones declared as fields in the generated code of the same run.
C19_ResolvedBatchInvariant ==
    pc \in {"generated", "selfCompared"} =>
        LET batch == Val(generated).metadata.elements
            code == Val(generated).code
        IN  /\ \A j, k \in 1..Len(batch) :
                  j # k => batch[j].name # batch[k].name
            /\ \A k \in 1..Len(batch) : Len(batch[k].locatorCode) > 0
            /\ Len(code.fields) = Len(batch)
            /\ \A k \in 1..Len(batch) : code.fields[k] = batch[k].name

\* a descriptor the ignore rules name: its id contains an ignoreIds entry, its
\* class string an ignoreClasses entry, or its role an ignoreRoles entry
MatchesIgnoreRule(cfg, i) ==
    \/ Truthy(i.id) /\ SomeIncluded(cfg.ignoreRules.ignoreIds, Val(i.id))
    \/ Truthy(i.className)
       /\ SomeIncluded(cfg.ignoreRules.ignoreClasses, Val(i.className))
    \/ Truthy(i.role) /\ SomeIncluded(cfg.ignoreRules.ignoreRoles, Val(i.role))

\* the elements of the page that no ignore rule names
KeptCount ==
    Cardinality({k \in 1..Len(page) : ~MatchesIgnoreRule(config, page[k].info)})

\* C22: ignore rules are applied before resolution: a descriptor whose id
\* contains a configured ignoreIds entry, whose class string contains a
\* configured ignoreClasses entry, or whose role contains a configured
\* ignoreRoles entry as a substring is dropped and never appears in the
\* metadata batch or the generated code.
C22_IgnoredNeverResolved ==
    pc \in {"generated", "selfCompared"} =>
        LET m == Val(generated).metadata
            code == Val(generated).code
        IN  /\ \A k \in 1..Len(page) :
                  MatchesIgnoreRule(config, page[k].info) =>
                      \A j \in 1..Len(m.elements) :
                          m.elements[j].originalInfo # page[k].info
            /\ Len(m.elements) = KeptCount
            /\ Len(code.fields) = KeptCount

-----------------------------------------------------------------------------
(* Specification of one createAnalyzedElement call on descriptors whose
   strings vary character by character *)

\* a lower-case letter, an upper-case letter, a digit, a blank and a
\* punctuation mark
NameAlphabet == {"a", "B", "1", " ", "-"}

\* options.config of the constructor: absent, or case folding switched off
NamingUserConfigs ==
    {None, Some([namingRules |-> [useCamelCase |-> FALSE]])}

\* descriptors with one attribute read from the page as any string over
\* NameAlphabet, with or without a name attribute
NameInfos ==
    {[NullInfo("div") EXCEPT ![f] = Some(s), !.name = n] :
        <<f, s, n>> \in {"ariaLabel", "id", "className"}
                        \X StringsUpTo(NameAlphabet, MaxStrLen)
                        \X {None, Some("user")}}

InitName ==
    /\ pc = "resolve"
    /\ \E u \in NamingUserConfigs : config = mergeConfig(u)
    /\ info \in NameInfos
    /\ elementType \in ElementTypes
    /\ analyzed = None
    /\ EscapeIdle /\ DedupIdle /\ DiffIdle /\ GenerateIdle /\ CliIdle
    /\ LaterIdle

SpecName == InitName /\ [][NextResolve]_vars

-----------------------------------------------------------------------------
(* Claims on the attribute fallback and on naming *)

\* the first whitespace-separated token of s, "" when s has none
FirstToken(s) ==
    LET words == SplitWords(s, "") IN IF words = <<>> THEN "" ELSE words[1]

\* C13: within the attribute fallback the locator is '#<id>' if id is present,
\* else '[name="<name>"]' if name is present, else '.<first class token>' if a
\* class string is present, else the bare tag name; the class-based form
\* always carries a non-empty class token, the first whitespace-separated
\* token of the class string.
C13_AttributeSubOrder ==
    (pc = "resolved" /\ analyzed # None
     /\ Val(analyzed).locatorType = "locator") =>
        Val(analyzed).locatorCode =
            "locator('"
            \o (IF Truthy(info.id) THEN "#" \o escapeString(Val(info.id))
                ELSE IF Truthy(info.name)
                THEN "[name=\"" \o escapeString(Val(info.name)) \o "\"]"
                ELSE IF Truthy(info.className)
                        /\ FirstToken(Val(info.className)) # ""
                THEN "." \o FirstToken(Val(info.className))
                ELSE info.tagName)
            \o "')"

\* the naming signals in the order the contract lists them
NameSignals ==
    <<"ariaLabel", "label", "placeholder", "text", "name", "id", "testId">>

\* a signal is present when it is a non-empty string, the visible text only
\* when it is no longer than namingRules.maxTextLength
SignalPresent(f) ==
    /\ Truthy(info[f])
    /\ f = "text" => Len(Val(info.text)) <= config.namingRules.maxTextLength

FirstPresentSignal ==
    CHOOSE k \in 1..Len(NameSignals) :
        /\ SignalPresent(NameSignals[k])
        /\ \A j \in 1..(k - 1) : ~SignalPresent(NameSignals[j])

ExpectedBaseName ==
    IF \E k \in 1..Len(NameSignals) : SignalPresent(NameSignals[k])
    THEN Val(info[NameSignals[FirstPresentSignal]])
    ELSE "unnamed" \o elementType

\* C14: generateElementName takes the base name from the first present signal
\* in the order aria-label, label, placeholder, visible text (only when its
\* length is at most namingRules.maxTextLength), name, id, test-id, and
\* otherwise uses unnamed<Category>; the choice does not depend on
\* locatorPriority or on the locator strategy that won.
C14_NameResolutionOrder ==
    pc = "resolved" =>
        /\ analyzed # None
        /\ Val(analyzed).name
              = toCamelCase(ExpectedBaseName)
                \o DEFAULT_CONFIG.namingRules.suffixes[elementType]
        /\ Val(analyzed).name
              = generateElementName(DEFAULT_CONFIG, info, elementType)

\* the label names the element while another strategy locates it
C14_Witness ==
    /\ pc = "resolved"
    /\ ~Truthy(info.ariaLabel) /\ Truthy(info.label) /\ Truthy(info.text)
    /\ Truthy(info.id)
    /\ elementType = "input"
    /\ config.locatorPriority = <<"locator", "getByText">>
    /\ analyzed # None
    /\ Val(analyzed).name = "emailInput"
    /\ Val(analyzed).locatorType = "locator"

IsLetterOrDigit(s) == \A k \in 1..Len(s) : IsAlnum(Char(s, k))

DigitChars == {Char(Digits, k) : k \in 1..10}

\* C15: every identifier generateElementName produces under the default
\* configuration is a valid code identifier: non-empty, made only of ASCII
\* letters and digits, and not starting with a digit.
C15_ValidIdentifier ==
    (pc = "resolved" /\ config = DEFAULT_CONFIG) =>
        /\ analyzed # None
        /\ Len(Val(analyzed).name) > 0
        /\ IsLetterOrDigit(Val(analyzed).name)
        /\ Char(Val(analyzed).name, 1) \notin DigitChars

NoNameSignal ==
    \A k \in 1..Len(NameSignals) : ~Truthy(info[NameSignals[k]])

\* C16: for a descriptor with no aria-label, label, placeholder, text, name,
\* id or test-id the identifier is unnamed, then the capitalised category,
\* then the category suffix: unnamedOtherElement for other,
\* unnamedButtonButton for button, under the default configuration.
C16_UnnamedPlaceholder ==
    (pc = "resolved" /\ NoNameSignal) =>
        /\ analyzed # None
        /\ Val(analyzed).name
              = "unnamed" \o Capitalize(elementType)
                \o DEFAULT_CONFIG.namingRules.suffixes[elementType]
        /\ elementType = "other" => Val(analyzed).name = "unnamedOtherElement"
        /\ elementType = "button" => Val(analyzed).name = "unnamedButtonButton"

\* s without the characters that are neither letters nor digits
RECURSIVE StripNonAlnum(_)
StripNonAlnum(s) ==
    IF Len(s) = 0 THEN ""
    ELSE (IF IsAlnum(Char(s, 1)) THEN Char(s, 1) ELSE "")
         \o StripNonAlnum(SubSeq(s, 2, Len(s)))

\* C17: when namingRules.useCamelCase is false the identifier is the raw base
\* name with its non-alphanumeric characters stripped, no case changed,
\* followed by the category suffix; no non-alphanumeric character of the base
\* name survives into the identifier.
C17_RawNameStripped ==
    (pc = "resolved" /\ ~config.namingRules.useCamelCase) =>
        /\ analyzed # None
        /\ Val(analyzed).name
              = StripNonAlnum(ExpectedBaseName)
                \o config.namingRules.suffixes[elementType]
        /\ IsLetterOrDigit(Val(analyzed).name)

-----------------------------------------------------------------------------
(* Specification of one generateTemplate call *)

\* the AnalyzedElement createAnalyzedElement builds, under the default
\* configuration, for an element of category et labelled ariaLabel
TemplateElement(et, ariaLabel) ==
    Val(createAnalyzedElement(DEFAULT_CONFIG,
            [NullInfo("div") EXCEPT !.ariaLabel = Some(ariaLabel)], et))

\* values of the AnalyzedPage type: up to MaxBatch buttons out of two, and at
\* most one element of every other category (a textarea may carry the label
\* of the input)
AnalyzedPages ==
    [buttons : SeqsUpTo({TemplateElement("button", "Log in"),
                         TemplateElement("button", "Submit")}, MaxBatch),
     inputs : SeqsUpTo({TemplateElement("input", "Email")}, 1),
     links : SeqsUpTo({TemplateElement("link", "Forgot")}, 1),
     selects : SeqsUpTo({TemplateElement("select", "Country")}, 1),
     checkboxes : SeqsUpTo({TemplateElement("checkbox", "Remember")}, 1),
     radios : SeqsUpTo({TemplateElement("radio", "Plan")}, 1),
     textareas : SeqsUpTo({TemplateElement("textarea", "Notes"),
                           TemplateElement("textarea", "Email")}, 1),
     headings : SeqsUpTo({TemplateElement("heading", "Welcome")}, 1),
     others : SeqsUpTo({TemplateElement("other", "Banner")}, 1)]

InitTemplate ==
    /\ pc = "template"
    /\ analyzedPage \in AnalyzedPages
    /\ template = None
    /\ page = <<>> /\ generated = None
    /\ ResolveIdle /\ EscapeIdle /\ DedupIdle /\ DiffIdle /\ CliIdle
    /\ LaterIdle

GenerateTemplate ==
    /\ pc = "template"
    /\ template' = Some(generateTemplate(config, "Login", analyzedPage))
    /\ pc' = "templated"
    /\ UNCHANGED <<analyzedPage, page, generated, resolveVars, escapeVars,
                   dedupVars, diffVars, cliVars,
                   laterVars>>

NextTemplate == GenerateTemplate

SpecTemplate == InitTemplate /\ [][NextTemplate]_vars

\* the elements of the eight coded categories, in category order
CodedElements ==
    analyzedPage.buttons \o analyzedPage.inputs \o analyzedPage.links
    \o analyzedPage.selects \o analyzedPage.checkboxes \o analyzedPage.radios
    \o analyzedPage.textareas \o analyzedPage.headings

HelperVerbs ==
    [button |-> <<"click">>, link |-> <<"click">>, input |-> <<"fill">>,
     textarea |-> <<"fill">>, select |-> <<"select">>,
     checkbox |-> <<"check", "uncheck">>]

\* the identifier without its category suffix, first letter capitalised, the
\* rest unchanged
HelperBaseName(e) ==
    Capitalize(StripSuffix(e.name,
                   DEFAULT_CONFIG.namingRules.suffixes[e.elementType]))

\* C21: for every element of category button, link, input, textarea, select
\* or checkbox of a deduplicated batch the helper method name is the verb
\* followed by the identifier with its category suffix stripped and its first
\* letter capitalised, the rest of the identifier unchanged (for a link the
\* documented example keeps a trailing Link): loginButton gives clickLogin and
\* a multi-word identifier keeps its inner capitalisation.
C21_HelperMethodNames ==
    pc = "templated" =>
        LET batch == deduplicateElements(flattenElements(analyzedPage))
            t == Val(template)
        IN  \A k \in 1..Len(batch) :
                batch[k].elementType \in DOMAIN HelperVerbs =>
                    \A v \in 1..Len(HelperVerbs[batch[k].elementType]) :
                        \E j \in 1..Len(t.methods) :
                            /\ t.methods[j].field = batch[k].name
                            /\ t.methods[j].name \in
                                  {HelperVerbs[batch[k].elementType][v]
                                      \o HelperBaseName(batch[k]),
                                   HelperVerbs[batch[k].elementType][v]
                                      \o HelperBaseName(batch[k])
                                      \o (IF batch[k].elementType = "link"
                                          THEN "Link" ELSE "")}

\* the member names of the generated class: the page field, the element
\* fields, the goto method and the helper methods
MemberNames ==
    LET t == Val(template)
    IN  <<"page">> \o t.fields
        \o (IF t.goto THEN <<"goto">> ELSE <<>>)
        \o [j \in 1..Len(t.methods) |-> t.methods[j].name]

-----------------------------------------------------------------------------
(* Specification of PageObjectGenerator instances constructed and run side
   by side in one process *)

Instances == 1..MaxInstances

\* new PageObjectGenerator({config: userConfig}) when the DEFAULT_CONFIG
\* object holds the value shared: this.config, and DEFAULT_CONFIG after the
\* call. Without a user configuration this.config is the DEFAULT_CONFIG
\* object itself, otherwise a new object; the call writes to neither.
NewPageObjectGeneratorAssigning(shared, userConfig) ==
    [config |-> [ref |-> "DEFAULT_CONFIG", value |-> <<>>],
     shared |-> IF userConfig = None THEN shared
                ELSE Spread(shared, Val(userConfig))]

NewPageObjectGenerator(shared, userConfig) ==
    [config |-> IF userConfig = None
                THEN [ref |-> "DEFAULT_CONFIG", value |-> <<>>]
                ELSE [ref |-> "own", value |-> mergeConfig(userConfig)],
     shared |-> shared]

\* this.config of an instance, read through its reference
ConfigOf(inst) ==
    IF inst.config.ref = "DEFAULT_CONFIG" THEN defaultConfig
    ELSE inst.config.value

IsolationUserConfigs ==
    {None,
     Some([locatorPriority |-> <<"locator">>]),
     Some([namingRules |-> [useCamelCase |-> FALSE]]),
     Some([ignoreRules |-> [ignoreIds |-> <<"cookie">>]])}

IsolationPages ==
    {<<DomElement("button", [NullInfo("button") EXCEPT
                               !.ariaLabel = Some("Log in"),
                               !.id = Some("cookie-ok")])>>,
     <<DomElement("textbox", [NullInfo("input") EXCEPT
                               !.label = Some("Email"),
                               !.name = Some("email")])>>}

InitIsolation ==
    /\ pc = "instances"
    /\ defaultConfig = DEFAULT_CONFIG
    /\ instances \in [Instances -> [state : {"unborn"},
                                    userConfig : IsolationUserConfigs,
                                    page : IsolationPages,
                                    config : {<<>>},
                                    result : {None}]]
    /\ CoreIdle /\ FeatureIdle /\ ExecIdle /\ LifecycleIdle

\* instance n is constructed
Construct(n) ==
    /\ pc = "instances"
    /\ instances[n].state = "unborn"
    /\ LET made == NewPageObjectGenerator(defaultConfig,
                                          instances[n].userConfig)
       IN  /\ instances' = [instances EXCEPT ![n].state = "constructed",
                                             ![n].config = made.config]
           /\ defaultConfig' = made.shared
    /\ UNCHANGED <<pc, restOfIsolation>>

\* instance n runs generateFromPage on its page
GenerateOn(n) ==
    /\ pc = "instances"
    /\ instances[n].state = "constructed"
    /\ instances' =
          [instances EXCEPT
              ![n].state = "generated",
              ![n].result = Some(generateFromPage(ConfigOf(instances[n]),
                                     instances[n].page, "Login", "url"))]
    /\ UNCHANGED <<pc, defaultConfig, restOfIsolation>>

NextIsolation == \E n \in Instances : Construct(n) \/ GenerateOn(n)

SpecIsolation == InitIsolation /\ [][NextIsolation]_vars

\* C24: for any interleaving of PageObjectGenerator instances constructed
\* with any user configurations (none included) and running generation, the
\* shared DEFAULT_CONFIG value is never modified, and the effective
\* configuration and the output of an instance are those of that instance
\* run alone: they depend on its own configuration and page only.
C24_ConfigIsolation ==
    pc = "instances" =>
        /\ defaultConfig = DEFAULT_CONFIG
        /\ \A n \in Instances :
              /\ instances[n].state # "unborn" =>
                    ConfigOf(instances[n])
                       = mergeConfig(instances[n].userConfig)
              /\ instances[n].state = "generated" =>
                    instances[n].result
                       = Some(generateFromPage(
                                 mergeConfig(instances[n].userConfig),
                                 instances[n].page, "Login", "url"))

\* an instance on the defaults and one with its own priority list have both
\* generated from the same page, with different locators
C24_Witness ==
    /\ pc = "instances"
    /\ instances[1].state = "generated" /\ instances[2].state = "generated"
    /\ instances[1].userConfig = None
    /\ instances[2].userConfig = Some([locatorPriority |-> <<"locator">>])
    /\ instances[1].page = instances[2].page
    /\ Val(instances[1].result).metadata.elements[1].locatorType = "getByRole"
    /\ Val(instances[2].result).metadata.elements[1].locatorType = "locator"

-----------------------------------------------------------------------------
(* Specification of one run of the generate-page-object CLI: main *)

LoginButton ==
    DomElement("button", [NullInfo("button") EXCEPT
                             !.ariaLabel = Some("Log in")])
EmailBox ==
    DomElement("textbox", [NullInfo("input") EXCEPT
                             !.placeholder = Some("Email")])
EmailBoxById ==
    DomElement("textbox", [NullInfo("input") EXCEPT !.id = Some("email"),
                                                    !.name = Some("Email")])

\* the page at the url, on this run and on the run that wrote the baseline
CliPages == {<<>>, <<LoginButton>>, <<LoginButton, EmailBox>>,
             <<LoginButton, EmailBoxById>>}

\* the file named by --compare: absent, not JSON, JSON of something else
\* ({}), or the metadata an earlier run saved with --metadata
Baselines ==
    {[kind |-> k, metadata |-> <<>>] :
        k \in {"missing", "malformed", "notMetadata"}}
    \cup
    {[kind |-> "metadata",
      metadata |-> generateFromPage(DEFAULT_CONFIG, p, "Login", "url").metadata] :
        p \in CliPages}

ArgLines ==
    {<<>>,
     <<"--help">>,
     <<"-v", "-h">>,
     <<"url">>,
     <<"generate">>,
     <<"url", "Login">>,
     <<"-v", "url", "Login", "out.ts">>,
     <<"-j", "url", "Login">>,
     <<"-s", "-m", "meta.json", "url", "Login">>,
     <<"--screenshot-path", "shot.png", "url", "Login">>,
     <<"compare">>,
     <<"compare", "url", "Login">>,
     <<"url", "Login", "-c">>,
     <<"-c", "old.json", "url", "Login">>,
     <<"-c", "old.json", "url">>,
     <<"-j", "-c", "old.json", "url", "Login">>,
     <<"diff", "-c", "old.json", "-m", "meta.json", "url", "Login">>}

Parsed == parseArgs(args)

InitCli ==
    /\ pc = "main"
    /\ args \in ArgLines
    /\ page \in CliPages
    /\ \E b \in Baselines : env = [baseline |-> b, written |-> {}]
    /\ generated = None
    /\ exitCode = 0 /\ exited = FALSE /\ stdout = <<>> /\ stderr = <<>>
    /\ TemplateIdle /\ ResolveIdle /\ EscapeIdle /\ DedupIdle /\ DiffIdle
    /\ LaterIdle

restOfCli == <<resolveVars, escapeVars, dedupVars, templateVars, laterVars>>

\* process.exit(code)
Exit(code) == exitCode' = code /\ exited' = TRUE /\ pc' = "exit"

\* the outer catch of main: console.error('Error:', error); process.exit(1)
CatchAndExit ==
    /\ stderr' = Append(stderr, "Error:")
    /\ Exit(1)

\* no arguments, or help asked: printUsage and exit
PrintUsageAndExit ==
    /\ pc = "main"
    /\ Len(args) = 0 \/ WantsHelp(args)
    /\ stdout' = Append(stdout, "usage")
    /\ Exit(IF Len(args) = 0 THEN 1 ELSE 0)
    /\ UNCHANGED <<args, env, stderr, diffVars, generateVars, restOfCli>>

\* generate without url or page name
RejectArguments ==
    /\ pc = "main"
    /\ ~(Len(args) = 0 \/ WantsHelp(args))
    /\ Parsed.command = "generate"
    /\ ~Truthy(Parsed.url) \/ ~Truthy(Parsed.pageName)
    /\ stderr' = Append(stderr,
                        "Error: URL and page name are required for generation")
    /\ stdout' = Append(stdout, "usage")
    /\ Exit(1)
    /\ UNCHANGED <<args, env, diffVars, generateVars, restOfCli>>

AcceptArguments ==
    /\ pc = "main"
    /\ ~(Len(args) = 0 \/ WantsHelp(args))
    /\ ~(Parsed.command = "generate"
         /\ (~Truthy(Parsed.url) \/ ~Truthy(Parsed.pageName)))
    /\ pc' = "initialize"
    /\ UNCHANGED <<cliVars, diffVars, generateVars, restOfCli>>

\* await generator.initialize(): the browser starts or the launch throws
Initialize ==
    /\ pc = "initialize"
    /\ \/ /\ pc' = "generate"
          /\ UNCHANGED <<exitCode, exited, stderr>>
       \/ CatchAndExit
    /\ UNCHANGED <<args, env, stdout, diffVars, generateVars, restOfCli>>

\* await generator.generateFromUrl(url, pageName), when url and page name are
\* given: the page is analysed, or navigation or analysis throws
Generate ==
    /\ pc = "generate"
    /\ IF Parsed.command \in {"generate", "compare"}
          /\ Truthy(Parsed.url) /\ Truthy(Parsed.pageName)
       THEN \/ /\ generated' = Some(generateFromPage(DEFAULT_CONFIG, page,
                                        Val(Parsed.pageName), Val(Parsed.url)))
               /\ pc' = "compare"
               /\ UNCHANGED <<exitCode, exited, stderr>>
            \/ /\ CatchAndExit
               /\ UNCHANGED generated
       ELSE /\ pc' = "close"
            /\ UNCHANGED <<generated, exitCode, exited, stderr>>
    /\ UNCHANGED <<args, env, stdout, page, diffVars, restOfCli>>

\* the compareWith block: read and parse the baseline, compare, print, and
\* set process.exitCode = 2 on changes; its own catch logs what was thrown
CompareBaseline ==
    /\ pc = "compare"
    /\ IF Truthy(Parsed.compareWith)
       THEN IF env.baseline.kind = "metadata"
            THEN LET d == compare(env.baseline.metadata, Val(generated).metadata)
                 IN  /\ oldMetadata' = env.baseline.metadata
                     /\ newMetadata' = Val(generated).metadata
                     /\ diff' = Some(d)
                     /\ stdout' = Append(stdout,
                                     IF Parsed.options.jsonOutput
                                     THEN "diff-json" ELSE "diff-text")
                     /\ exitCode' = IF hasChanges(d) THEN 2 ELSE exitCode
                     /\ UNCHANGED stderr
            ELSE /\ stderr' = Append(stderr, "Error reading comparison file: "
                                             \o Val(Parsed.compareWith))
                 /\ UNCHANGED <<diffVars, stdout, exitCode>>
       ELSE UNCHANGED <<diffVars, stdout, stderr, exitCode>>
    /\ pc' = "save"
    /\ UNCHANGED <<args, env, exited, generateVars, restOfCli>>

\* the metadataPath block: mkdir and writeFile succeed or throw
SaveMetadata ==
    /\ pc = "save"
    /\ IF Truthy(Parsed.metadataPath)
       THEN \/ /\ env' = [env EXCEPT !.written = @ \cup {Val(Parsed.metadataPath)}]
               /\ pc' = "output"
               /\ UNCHANGED <<exitCode, exited, stderr>>
            \/ /\ CatchAndExit
               /\ UNCHANGED env
       ELSE /\ pc' = "output"
            /\ UNCHANGED <<env, exitCode, exited, stderr>>
    /\ UNCHANGED <<args, stdout, diffVars, generateVars, restOfCli>>

\* the output block: the metadata as JSON, or the code to a file or to the
\* console; nothing in compare mode
Output ==
    /\ pc = "output"
    /\ IF Parsed.options.jsonOutput /\ ~Truthy(Parsed.compareWith)
       THEN /\ stdout' = Append(stdout, "metadata-json")
            /\ pc' = "close"
            /\ UNCHANGED <<env, exitCode, exited, stderr>>
       ELSE IF ~Truthy(Parsed.compareWith)
       THEN IF Truthy(Parsed.outputPath)
            THEN \/ /\ env' = [env EXCEPT
                                 !.written = @ \cup {Val(Parsed.outputPath)}]
                    /\ stdout' = Append(stdout, "saved")
                    /\ pc' = "close"
                    /\ UNCHANGED <<exitCode, exited, stderr>>
                 \/ /\ CatchAndExit
                    /\ UNCHANGED <<env, stdout>>
            ELSE /\ stdout' = Append(stdout, "code")
                 /\ pc' = "close"
                 /\ UNCHANGED <<env, exitCode, exited, stderr>>
       ELSE /\ pc' = "close"
            /\ UNCHANGED <<env, stdout, exitCode, exited, stderr>>
    /\ UNCHANGED <<args, diffVars, generateVars, restOfCli>>

\* finally: generator.close(); main returns and the process ends with
\* process.exitCode
Close ==
    /\ pc = "close"
    /\ pc' = "exit"
    /\ exited' = TRUE
    /\ UNCHANGED <<args, env, exitCode, stdout, stderr, diffVars,
                   generateVars, restOfCli>>

NextCli ==
    \/ PrintUsageAndExit \/ RejectArguments \/ AcceptArguments
    \/ Initialize \/ Generate \/ CompareBaseline \/ SaveMetadata \/ Output
    \/ Close

SpecCli == InitCli /\ [][NextCli]_vars

Logged(prefix) ==
    \E k \in 1..Len(stderr) :
        /\ Len(stderr[k]) >= Len(prefix)
        /\ SubSeq(stderr[k], 1, Len(prefix)) = prefix

UsageError ==
    \/ Len(args) = 0
    \/ /\ ~WantsHelp(args)
       /\ Parsed.command = "generate"
       /\ ~Truthy(Parsed.url) \/ ~Truthy(Parsed.pageName)

\* something the run called threw: the launch, the navigation, reading or
\* parsing the baseline, or writing a file
RuntimeError ==
    Logged("Error:") \/ Logged("Error reading comparison file")

DriftDetected == diff # None /\ hasChanges(Val(diff))

\* C8: the run exits with 1 on a usage error or a runtime error, and
\* otherwise with 2 if compare mode computed a diff with changes and with 0
\* if it did not.
C8_ExitCodes ==
    exited =>
        /\ (UsageError \/ RuntimeError) => exitCode = 1
        /\ ~(UsageError \/ RuntimeError) =>
              /\ exitCode = 2 <=> DriftDetected
              /\ exitCode = 0 <=> ~DriftDetected

\* C9: when the --compare baseline cannot be read or parsed, the run does not
\* end with exit status 0, and no diff against an empty baseline is computed.
C9_BaselineErrorReported ==
    (exited /\ Logged("Error reading comparison file")) =>
        /\ exitCode # 0
        /\ diff = None

-----------------------------------------------------------------------------
(* Specification of one run of the generate-tests-from-feature CLI: main *)

featureDefaults ==
    [featurePath |-> "", baseUrl |-> "", outputDir |-> "./generated",
     execute |-> FALSE, useAI |-> FALSE, verbose |-> FALSE, help |-> FALSE]

\* the for loop of parseArgs over a[i..]: <<>> when it throws
RECURSIVE featureParseLoop(_, _, _)
featureParseLoop(a, i, o) ==
    IF i > Len(a) THEN Some(o)
    ELSE LET arg == a[i] IN
         CASE arg \in {"-h", "--help"} ->
                featureParseLoop(a, i + 1, [o EXCEPT !.help = TRUE])
           [] arg \in {"-u", "--base-url"} ->
                IF i + 1 > Len(a) THEN None
                ELSE featureParseLoop(a, i + 2,
                                      [o EXCEPT !.baseUrl = a[i + 1]])
           [] arg \in {"-o", "--output"} ->
                IF i + 1 > Len(a) THEN None
                ELSE featureParseLoop(a, i + 2,
                                      [o EXCEPT !.outputDir = a[i + 1]])
           [] arg \in {"-e", "--execute"} ->
                featureParseLoop(a, i + 1, [o EXCEPT !.execute = TRUE])
           [] arg = "--ai" ->
                featureParseLoop(a, i + 1, [o EXCEPT !.useAI = TRUE])
           [] arg \in {"-v", "--verbose"} ->
                featureParseLoop(a, i + 1, [o EXCEPT !.verbose = TRUE])
           [] OTHER ->
                IF StartsWithDash(arg) THEN None
                ELSE featureParseLoop(a, i + 1,
                         IF o.featurePath = ""
                         THEN [o EXCEPT !.featurePath = arg] ELSE o)

featureParseArgs(a) == featureParseLoop(a, 1, featureDefaults)

\* validateOptions returns normally
validateOptions(o, apiKey) ==
    \/ o.help
    \/ /\ o.featurePath # ""
       /\ o.baseUrl # ""
       /\ o.useAI => apiKey

FeatureArgLines ==
    {<<>>, <<"-h">>, <<"-h", "--bogus">>, <<"login.feature">>, <<"-u">>,
     <<"-u", "http://site", "login.feature">>,
     <<"-e", "-u", "http://site", "login.feature">>,
     <<"--execute", "--base-url", "http://site", "login.feature", "-v">>,
     <<"--ai", "-u", "http://site", "login.feature">>,
     <<"-e", "-u", "http://site", "-o">>,
     <<"-o", "out", "-u", "http://site", "a.feature", "b.feature">>,
     <<"-u", "http://site", "--bogus", "login.feature">>}

\* what a scenario meets: its execution passes, its trace comes back with
\* success = false, the browser launch throws, or writing its files throws
ScenarioOutcomes == {"passed", "failed", "launchError", "writeError"}

\* the feature file is missing, cannot be parsed, or holds the scenarios
FeatureFiles ==
    {[kind |-> "missing"], [kind |-> "malformed"]}
    \cup {[kind |-> "feature", scenarios |-> q] :
             q \in SeqsUpTo(ScenarioOutcomes, MaxScenarios)}

InitFeature ==
    /\ pc = "featureMain"
    /\ args \in FeatureArgLines
    /\ \E f \in FeatureFiles, k \in BOOLEAN :
          env = [file |-> f, apiKey |-> k]
    /\ exitCode = 0 /\ exited = FALSE /\ stdout = <<>> /\ stderr = <<>>
    /\ FeatureIdle /\ IsolationIdle /\ ExecIdle /\ LifecycleIdle
    /\ ResolveIdle /\ EscapeIdle /\ DedupIdle /\ DiffIdle /\ GenerateIdle

\* main().catch: console.error('Unexpected error:', error); process.exit(1)
UnexpectedError ==
    /\ stderr' = Append(stderr, "Unexpected error:")
    /\ Exit(1)

\* parseArgs and validateOptions, then the help branch
ReadOptions ==
    /\ pc = "featureMain"
    /\ LET parsed == featureParseArgs(args) IN
       IF parsed = None \/ ~validateOptions(Val(parsed), env.apiKey)
       THEN /\ stderr' = Append(stderr, "Error:")
            /\ stdout' = Append(stdout, "help")
            /\ Exit(1)
            /\ UNCHANGED options
       ELSE /\ options' = Val(parsed)
            /\ IF Val(parsed).help
               THEN stdout' = Append(stdout, "help") /\ Exit(0)
               ELSE /\ pc' = "access"
                    /\ UNCHANGED <<stdout, exitCode, exited>>
            /\ UNCHANGED stderr
    /\ UNCHANGED <<args, env, scenarioIndex, hasErrors, traces, writtenTests,
                   restOfFeature>>

\* fs.access(featurePath)
AccessFeatureFile ==
    /\ pc = "access"
    /\ IF env.file.kind = "missing"
       THEN /\ stderr' = Append(stderr, "Error: Feature file not found")
            /\ Exit(1)
       ELSE pc' = "parse" /\ UNCHANGED <<stderr, exitCode, exited>>
    /\ UNCHANGED <<args, env, stdout, featureVars, restOfFeature>>

\* parseAndExpandFeatureFile(featurePath)
ParseFeatureFile ==
    /\ pc = "parse"
    /\ IF env.file.kind = "malformed"
       THEN UnexpectedError /\ UNCHANGED scenarioIndex
       ELSE /\ pc' = "scenarios" /\ scenarioIndex' = 1
            /\ UNCHANGED <<stderr, exitCode, exited>>
    /\ UNCHANGED <<args, env, stdout, options, hasErrors, traces,
                   writtenTests, restOfFeature>>

\* one pass of the loop over concreteScenarios: interpret, execute when -e
\* is given, generate and write the test files
ProcessScenario ==
    /\ pc = "scenarios"
    /\ scenarioIndex <= Len(env.file.scenarios)
    /\ LET outcome == env.file.scenarios[scenarioIndex]
           failedTrace == options.execute /\ outcome = "failed"
       IN  IF options.execute /\ outcome = "launchError"
           THEN /\ UnexpectedError
                /\ UNCHANGED <<scenarioIndex, hasErrors, traces,
                               writtenTests>>
           ELSE /\ traces' = IF options.execute
                             THEN Append(traces, ~failedTrace) ELSE traces
                /\ hasErrors' = (hasErrors \/ failedTrace)
                /\ IF outcome = "writeError"
                   THEN /\ (IF failedTrace
                            THEN stderr' = stderr \o <<"Execution failed",
                                                       "Unexpected error:">>
                            ELSE stderr' = Append(stderr,
                                                  "Unexpected error:"))
                        /\ Exit(1)
                        /\ UNCHANGED <<scenarioIndex, writtenTests>>
                   ELSE /\ stderr' = IF failedTrace
                                     THEN Append(stderr, "Execution failed")
                                     ELSE stderr
                        /\ writtenTests' = Append(writtenTests, scenarioIndex)
                        /\ scenarioIndex' = scenarioIndex + 1
                        /\ UNCHANGED <<pc, exitCode, exited>>
    /\ UNCHANGED <<args, env, stdout, options, restOfFeature>>

\* the summary ending with exit status 0 whatever hasErrors holds
SummariseIgnoringErrors ==
    /\ pc = "scenarios"
    /\ scenarioIndex > Len(env.file.scenarios)
    /\ stdout' = Append(stdout, "summary")
    /\ Exit(0)
    /\ UNCHANGED <<args, env, stderr, featureVars, restOfFeature>>

\* the summary and the exit status
Summarise ==
    /\ pc = "scenarios"
    /\ scenarioIndex > Len(env.file.scenarios)
    /\ stdout' = Append(stdout, "summary")
    /\ IF hasErrors THEN Exit(2) ELSE Exit(0)
    /\ UNCHANGED <<args, env, stderr, featureVars, restOfFeature>>

NextFeature ==
    \/ ReadOptions \/ AccessFeatureFile \/ ParseFeatureFile
    \/ ProcessScenario \/ Summarise

SpecFeature == InitFeature /\ [][NextFeature]_vars

-----------------------------------------------------------------------------
(* Claims on the generate-tests-from-feature CLI *)

ArgumentError ==
    \/ featureParseArgs(args) = None
    \/ ~validateOptions(Val(featureParseArgs(args)), env.apiKey)

HelpAsked == ~ArgumentError /\ Val(featureParseArgs(args)).help

ExecuteAsked == Val(featureParseArgs(args)).execute

\* scenario k ends the run with an exception
Throws(k) ==
    \/ env.file.scenarios[k] = "writeError"
    \/ ExecuteAsked /\ env.file.scenarios[k] = "launchError"

UnexpectedException ==
    \/ env.file.kind = "malformed"
    \/ /\ env.file.kind = "feature"
       /\ \E k \in 1..Len(env.file.scenarios) : Throws(k)

\* C25: after valid arguments every concrete scenario is processed and its
\* test files are generated even if an earlier scenario's execution failed,
\* and the process then exits with 2 if and only if at least one executed
\* scenario's trace has success = false (only possible with -e), with 0 if
\* none failed; it exits with 1 for argument errors, a missing feature file
\* or an unexpected exception.
C25_FeatureExitCodes ==
    (pc = "exit" /\ exited) =>
        /\ ArgumentError => exitCode = 1
        /\ HelpAsked => exitCode = 0
        /\ (~ArgumentError /\ ~HelpAsked) =>
              IF env.file.kind = "missing" \/ UnexpectedException
              THEN exitCode = 1
              ELSE LET n == Len(env.file.scenarios) IN
                   /\ writtenTests = [k \in 1..n |-> k]
                   /\ Len(traces) = IF ExecuteAsked THEN n ELSE 0
                   /\ exitCode \in {0, 2}
                   /\ exitCode = 2 <=>
                         \E k \in 1..Len(traces) : ~traces[k]
                   /\ exitCode = 2 <=>
                         /\ ExecuteAsked
                         /\ \E k \in 1..n : env.file.scenarios[k] = "failed"

\* the first scenario's execution failed, the second one passed, both have
\* their test files and the exit status is 2
C25_Witness ==
    /\ pc = "exit" /\ exited
    /\ env.file.kind = "feature"
    /\ env.file.scenarios = <<"failed", "passed">>
    /\ traces = <<FALSE, TRUE>>
    /\ writtenTests = <<1, 2>>
    /\ exitCode = 2

-----------------------------------------------------------------------------
(* The scenario executors: ScenarioExecutor (src/unnamed/part_001) drives a *)
(* Playwright page, MCPScenarioExecutor (scenario-runner/mcp-executor.ts)   *)
(* drives a Playwright MCP server through PlaywrightMCPClient               *)
(* (src/unnamed/part_000).                                                  *)

\* The action types kept apart: one that calls a tool directly, one that
\* reads a snapshot first, one only ScenarioExecutor handles, and 'unknown'.
ActionTypes == {"navigate", "click", "assertUrl", "unknown"}

\* works: the page lets the operation succeed (the navigation is answered,
\* the element exists, the URL matches) when the browser can be reached.
PlannedActions ==
    {a \in [type : ActionTypes, works : BOOLEAN] :
        a.type = "unknown" => a.works}

Scenarios ==
    UNION {[1..n -> PlannedActions] : n \in 0..MaxActions}

\* ScenarioExecutor: "page" after initialize(), "noPage" before it.
PageStates == {"page", "noPage"}

\* The MCP server as PlaywrightMCPClient.callTool meets it.
ServerStates == {"up", "unreachable", "httpError", "rpcError", "timeout"}

\* PlaywrightMCPClient.callTool: every failure is caught and returned as
\* {success: false, error}; nothing is thrown.
callTool(server) ==
    CASE server = "up"          -> [threw |-> FALSE, success |-> TRUE,
                                    error |-> ""]
      [] server = "rpcError"    -> [threw |-> FALSE, success |-> FALSE,
                                    error |-> "rpc error"]
      [] server = "timeout"     -> [threw |-> FALSE, success |-> FALSE,
                                    error |-> "Request timeout"]
      [] server = "httpError"   -> [threw |-> FALSE, success |-> FALSE,
                                    error |-> "Error: HTTP error: 500"]
      [] OTHER                  -> [threw |-> FALSE, success |-> FALSE,
                                    error |-> "TypeError: fetch failed"]

\* PlaywrightMCPClient.getSnapshot: null when the tool call failed.
getSnapshot(server) ==
    IF callTool(server).success THEN Some("snapshot") ELSE None

\* PlaywrightMCPClient.connect: rejects only when callTool throws; the
\* response's success flag decides nothing but a log line.
connect(server) ==
    LET response == callTool(server)
    IN  IF response.threw
        THEN [ok |-> FALSE,
              error |-> "Failed to connect to MCP server: " \o response.error]
        ELSE [ok |-> TRUE, error |-> ""]

StepOk(a) == [action |-> a, success |-> TRUE, error |-> ""]
StepFailed(a, e) == [action |-> a, success |-> FALSE, error |-> e]

\* ScenarioExecutor.executeAction
playwrightExecuteAction(a, pageState) ==
    IF pageState = "noPage"
    THEN StepFailed(a, "Executor not initialized. Call initialize() first.")
    ELSE IF a.type = "unknown"
    THEN StepFailed(a, "Unknown action type for step")
    ELSE IF ~a.works
    THEN StepFailed(a, a.type \o " failed")
    ELSE StepOk(a)

\* MCPScenarioExecutor.executeAction
mcpExecuteAction(a, server) ==
    CASE a.type = "navigate" ->
            LET result == callTool(server)
            IN  IF ~result.success
                THEN StepFailed(a, "Navigation failed: " \o result.error)
                ELSE IF ~a.works
                THEN StepFailed(a, "Navigation failed: net error")
                ELSE StepOk(a)
      [] a.type = "click" ->
            IF getSnapshot(server) = None
            THEN StepFailed(a, "Failed to get page snapshot")
            ELSE IF ~a.works
            THEN StepFailed(a, "Element not found")
            ELSE StepOk(a)
      [] OTHER -> StepOk(a)      \* 'unknown' and unhandled types: console.warn

executeAction(kind, a, b) ==
    IF kind = "mcp" THEN mcpExecuteAction(a, b)
    ELSE playwrightExecuteAction(a, b)

NewTrace == [steps |-> <<>>, success |-> TRUE, error |-> "", endTime |-> None]

InitExecute ==
    /\ pc = "execute"
    /\ executorKind \in {"playwright", "mcp"}
    /\ backend \in (IF executorKind = "mcp" THEN ServerStates ELSE PageStates)
    /\ scenario \in Scenarios
    /\ stepIndex = 0
    /\ performed = <<>>
    /\ connected = ""
    /\ trace = <<>>
    /\ CoreIdle /\ IsolationIdle /\ FeatureIdle /\ LifecycleIdle

\* Entry of executeScenario / execute: the trace is created; the MCP
\* executor connects first, and a rejected connect goes to the catch block.
BeginExecute ==
    /\ pc = "execute"
    /\ LET c == IF executorKind = "mcp" THEN connect(backend)
                ELSE [ok |-> TRUE, error |-> ""]
       IN  /\ connected' = (IF executorKind # "mcp" THEN "none"
                            ELSE IF c.ok THEN "resolved" ELSE "rejected")
           /\ trace' = (IF c.ok THEN NewTrace
                        ELSE [NewTrace EXCEPT !.success = FALSE,
                                              !.error = c.error])
           /\ pc' = (IF c.ok THEN "loop" ELSE "finish")
    /\ stepIndex' = 1
    /\ UNCHANGED <<executorKind, backend, scenario, performed, restOfExec>>

\* One iteration of the loop, without the break after a failed step.
ExecuteStepNoBreak ==
    /\ pc = "loop"
    /\ stepIndex <= Len(scenario)
    /\ LET stepTrace == executeAction(executorKind, scenario[stepIndex],
                                      backend)
       IN  /\ performed' = Append(performed, stepIndex)
           /\ trace' = (IF stepTrace.success
                        THEN [trace EXCEPT !.steps = Append(@, stepTrace)]
                        ELSE [trace EXCEPT !.steps = Append(@, stepTrace),
                                           !.success = FALSE,
                                           !.error = stepTrace.error])
           /\ pc' = "loop"
    /\ stepIndex' = stepIndex + 1
    /\ UNCHANGED <<executorKind, backend, scenario, connected, restOfExec>>

\* One iteration of `for (const action of scenario.actions)`.
ExecuteStep ==
    /\ pc = "loop"
    /\ stepIndex <= Len(scenario)
    /\ LET stepTrace == executeAction(executorKind, scenario[stepIndex],
                                      backend)
       IN  /\ performed' = Append(performed, stepIndex)
           /\ trace' = (IF stepTrace.success
                        THEN [trace EXCEPT !.steps = Append(@, stepTrace)]
                        ELSE [trace EXCEPT !.steps = Append(@, stepTrace),
                                           !.success = FALSE,
                                           !.error = stepTrace.error])
           /\ pc' = (IF stepTrace.success THEN "loop" ELSE "finish")
    /\ stepIndex' = stepIndex + 1
    /\ UNCHANGED <<executorKind, backend, scenario, connected, restOfExec>>

\* The end of the loop, or the break out of it.
LoopDone ==
    /\ pc = "loop"
    /\ stepIndex > Len(scenario)
    /\ pc' = "finish"
    /\ UNCHANGED <<execVars, restOfExec>>

\* trace.endTime = new Date(); return trace
ReturnTrace ==
    /\ pc = "finish"
    /\ trace' = [trace EXCEPT !.endTime = Some("now")]
    /\ pc' = "returned"
    /\ UNCHANGED <<executorKind, backend, scenario, stepIndex, performed,
                   connected, restOfExec>>

NextExecute == BeginExecute \/ ExecuteStep \/ LoopDone \/ ReturnTrace

SpecExecute == InitExecute /\ [][NextExecute]_vars

-----------------------------------------------------------------------------
(* Claims on the scenario executors *)

HasPrefix(s, p) == Len(s) >= Len(p) /\ SubSeq(s, 1, Len(p)) = p

\* C26: connect() fails with 'Failed to connect to MCP server' whenever the
\* browser_snapshot call did not succeed and resolves only when it
\* succeeded, so that execute hands no action to a server it could not
\* connect to: the trace then has no step and carries the connect error.
C26_ConnectFailsWithoutSnapshot ==
    (executorKind = "mcp" /\ pc # "execute") =>
        /\ (connected = "resolved") <=> (backend = "up")
        /\ backend # "up" =>
              /\ connected = "rejected"
              /\ performed = <<>>
              /\ trace.steps = <<>>
              /\ ~trace.success
              /\ HasPrefix(trace.error, "Failed to connect to MCP server")

\* The steps recorded so far are the actions handed to executeAction, in
\* the scenario's order, and only the last of them can have failed.
StepsInOrder ==
    /\ performed = [k \in 1..Len(performed) |-> k]
    /\ Len(trace.steps) = Len(performed)
    /\ Len(trace.steps) <= Len(scenario)
    /\ \A k \in 1..Len(trace.steps) :
          /\ trace.steps[k].action = scenario[k]
          /\ k < Len(trace.steps) => trace.steps[k].success

\* C27: both executors run the actions in order and stop at the first
\* failed step: nothing is executed after it, trace.steps is the executed
\* steps ending with the failed one, trace.success holds iff every action
\* was executed and succeeded, trace.error is the failed step's error, and
\* a trace with endTime set is returned.
C27_StopAtFirstFailure ==
    /\ pc \in {"loop", "finish", "returned"} => StepsInOrder
    /\ pc = "returned" =>
          /\ trace.endTime # None
          /\ trace.success <=>
                /\ Len(trace.steps) = Len(scenario)
                /\ \A k \in 1..Len(trace.steps) : trace.steps[k].success
          /\ (\E k \in 1..Len(trace.steps) : ~trace.steps[k].success) =>
                /\ ~trace.steps[Len(trace.steps)].success
                /\ trace.error = trace.steps[Len(trace.steps)].error

C27_Witness ==
    /\ pc = "returned"
    /\ Len(scenario) = 2
    /\ performed = <<1>>
    /\ ~trace.steps[1].success
    /\ ~trace.success
    /\ trace.error = trace.steps[1].error

\* C28: in both executors a step of type 'unknown' is recorded as failed,
\* so a scenario containing one never returns a trace with success = true.
C28_UnknownStepFails ==
    pc = "returned" =>
        /\ \A k \in 1..Len(trace.steps) :
              trace.steps[k].action.type = "unknown" =>
                  ~trace.steps[k].success
        /\ (\E k \in 1..Len(scenario) : scenario[k].type = "unknown") =>
              ~trace.success

-----------------------------------------------------------------------------
(* The lifecycle of a PageObjectGenerator: initialize, close and the methods *)
(* guarded by `if (!this.page) throw new Error('Page not initialized')`.     *)

\* A field holding a Playwright object: null, an open object, or an object
\* that has been closed (the field still refers to it).
Handles == {"null", "open", "closed"}

GuardedMethods ==
    {"navigateToUrl", "captureScreenshot", "generateFromPage",
     "generateFromUrl"}

\* private browser = null; private context = null; private page = null
NewGenerator ==
    [browser |-> "null", context |-> "null", page |-> "null",
     initializing |-> 0]

Call(method, outcome, usable, browserAction) ==
    [method |-> method, outcome |-> outcome, usable |-> usable,
     browserAction |-> browserAction]

\* Room in the log for one more call, keeping a place for the outcome of an
\* initialize() that is under way.
RoomFor(n) ==
    Len(calls) + n + (IF generatorState.initializing > 0 THEN 1 ELSE 0)
        <= MaxCalls

InitLifecycle ==
    /\ pc = "lifecycle"
    /\ generatorState = NewGenerator
    /\ calls = <<>>
    /\ CoreIdle /\ IsolationIdle /\ FeatureIdle /\ ExecIdle

\* initialize(), first statement: this.browser = await chromium.launch(...)
Launch ==
    /\ pc = "lifecycle"
    /\ generatorState.initializing = 0
    /\ RoomFor(1)
    /\ \E launched \in BOOLEAN :
          IF launched
          THEN /\ generatorState' = [generatorState EXCEPT
                                        !.browser = "open",
                                        !.initializing = 1]
               /\ calls' = calls
          ELSE /\ generatorState' = generatorState
               /\ calls' = Append(calls, Call("initialize", "launch failed",
                                              FALSE, TRUE))
    /\ UNCHANGED <<pc, restOfLifecycle>>

\* initialize(), second statement: this.context = await browser.newContext()
NewContext ==
    /\ pc = "lifecycle"
    /\ generatorState.initializing = 1
    /\ \E created \in BOOLEAN :
          IF created /\ generatorState.browser = "open"
          THEN /\ generatorState' = [generatorState EXCEPT
                                        !.context = "open",
                                        !.initializing = 2]
               /\ calls' = calls
          ELSE /\ generatorState' = [generatorState EXCEPT
                                        !.initializing = 0]
               /\ calls' = Append(calls, Call("initialize",
                                              "newContext failed",
                                              FALSE, TRUE))
    /\ UNCHANGED <<pc, restOfLifecycle>>

\* initialize(), third statement: this.page = await context.newPage()
NewPage ==
    /\ pc = "lifecycle"
    /\ generatorState.initializing = 2
    /\ \E created \in BOOLEAN :
          IF created /\ generatorState.context = "open"
          THEN /\ generatorState' = [generatorState EXCEPT
                                        !.page = "open",
                                        !.initializing = 0]
               /\ calls' = Append(calls, Call("initialize", "ok",
                                              TRUE, TRUE))
          ELSE /\ generatorState' = [generatorState EXCEPT
                                        !.initializing = 0]
               /\ calls' = Append(calls, Call("initialize", "newPage failed",
                                              FALSE, TRUE))
    /\ UNCHANGED <<pc, restOfLifecycle>>

\* close(): closes the context (and with it its page) and the browser when
\* they are set; this.page is not assigned.
close(g) ==
    [g EXCEPT !.context = IF @ = "null" THEN @ ELSE "closed",
              !.browser = IF @ = "null" THEN @ ELSE "closed",
              !.page = IF g.context # "null" /\ @ = "open" THEN "closed"
                       ELSE @]

CloseGenerator ==
    /\ pc = "lifecycle"
    /\ RoomFor(1)
    /\ generatorState' = close(generatorState)
    /\ calls' = Append(calls, Call("close", "ok",
                                   generatorState.page = "open",
                                   generatorState.context = "open"
                                     \/ generatorState.browser = "open"))
    /\ UNCHANGED <<pc, restOfLifecycle>>

\* The guard at the head of navigateToUrl, captureScreenshot and
\* generateFromPage (generateFromUrl starts with navigateToUrl): only a null
\* this.page throws; any other page is used.
guarded(g, method) ==
    IF g.page = "null"
    THEN Call(method, "Page not initialized", FALSE, FALSE)
    ELSE IF g.page = "open"
    THEN Call(method, "ok", TRUE, TRUE)
    ELSE Call(method, "Target page, context or browser has been closed",
              FALSE, TRUE)

CallGuarded ==
    /\ pc = "lifecycle"
    /\ RoomFor(1)
    /\ \E method \in GuardedMethods :
          calls' = Append(calls, guarded(generatorState, method))
    /\ UNCHANGED <<pc, generatorState, restOfLifecycle>>

NextLifecycle ==
    Launch \/ NewContext \/ NewPage \/ CloseGenerator \/ CallGuarded

SpecLifecycle == InitLifecycle /\ [][NextLifecycle]_vars

-----------------------------------------------------------------------------
(* Claims on the generator lifecycle *)

\* C29: navigateToUrl, captureScreenshot, generateFromPage and
\* generateFromUrl fail with 'Page not initialized' and perform no browser
\* action whenever no usable page exists (before initialize() has completed
\* and after close()); close() never fails, before initialize() or repeated.
C29_LifecycleGuard ==
    \A k \in 1..Len(calls) :
        /\ (calls[k].method \in GuardedMethods /\ ~calls[k].usable) =>
              /\ calls[k].outcome = "Page not initialized"
              /\ ~calls[k].browserAction
        /\ calls[k].method = "close" => calls[k].outcome = "ok"

====
